---- MODULE Spec2Model ----
(***************************************************************************)
(* The bounded ReAct reasoning loop of app/engine/orchestrator.py          *)
(* (stream_agent_task) as a state machine.  A run is an async generator:   *)
(* it is suspended at a yield (a frame has been handed to the consumer) or *)
(* awaiting the model.  One action is the code executed between two        *)
(* suspension points.                                                      *)
(*                                                                         *)
(* Text is a sequence of tokens (characters or fixed literals); the        *)
(* newline and the backslash are tokens of their own, so that escaping and *)
(* JSON encoding are computed, not assumed.                                *)
(*                                                                         *)
(* Spec is the reasoning loop.  SpecTool is one call of _execute_tool on   *)
(* arguments drawn from a set of argument texts.  SpecGraph is one run of  *)
(* WorkflowExecutor.execute_graph (app/engine/workflow_executor.py) on a   *)
(* submitted graph; SpecGraphFair adds that the run is driven to its end.  *)
(* SpecAgentGraph is execute_graph on graphs with agent and schedule       *)
(* nodes: an agent node consumes a run of the reasoning loop.  SpecTwo is  *)
(* two runs of the reasoning loop resumed in any order by one event loop.  *)
(***************************************************************************)
EXTENDS Integers, Sequences, FiniteSets, TLC

VARIABLES runs, db, call, wf

vars == <<runs, db, call, wf>>

\* ------------------------------------------------------------------ bounds

\* Largest number of structured tool calls in one model response.
MaxCalls == 2

\* The mocked model chooses its first MaxPattern continuing responses freely
\* and repeats them cyclically afterwards.
MaxPattern == 2

\* ------------------------------------------------------------- constants

MAX_REACT_STEPS == 10

DEFAULT_MODEL_NAME == "mistral:7b"

REPORTS_DIR == <<"reports">>

NoFinalText == <<"The agent completed its reasoning but produced no final text response.">>

\* The working directory of the process (os.path.abspath resolves against it).
Cwd == <<"/", "srv">>

\* ------------------------------------------------------------------ text

NL == "\n"
BS == "\\"
DQ == "\""

Digits ==
    << "0",  "1",  "2",  "3",  "4",  "5",  "6",  "7",  "8",  "9",
      "10", "11", "12", "13", "14", "15", "16", "17", "18", "19",
      "20", "21", "22", "23", "24", "25", "26", "27", "28", "29",
      "30", "31", "32", "33", "34", "35", "36", "37", "38", "39",
      "40", "41", "42", "43", "44", "45", "46", "47", "48", "49" >>

\* str(n) / f"{n}"
Str(n) == Digits[n + 1]

\* int(token), the inverse of Str on the numbers the model prints
IsNumber(tok) == \E n \in 0..(Len(Digits) - 1) : Digits[n + 1] = tok

IntOf(tok) == CHOOSE n \in 0..(Len(Digits) - 1) : Digits[n + 1] = tok

RECURSIVE Flatten(_)
\* the concatenation of a sequence of texts
Flatten(ts) == IF ts = <<>> THEN <<>> ELSE Head(ts) \o Flatten(Tail(ts))

RECURSIVE Join(_, _)
\* sep.join(ts)
Join(ts, sep) ==
    IF ts = <<>> THEN <<>>
    ELSE IF Len(ts) = 1 THEN Head(ts)
    ELSE Head(ts) \o sep \o Join(Tail(ts), sep)

RECURSIVE EscapeNewlines(_)
\* data.replace("\n", "\\n")
EscapeNewlines(t) ==
    IF t = <<>> THEN <<>>
    ELSE IF Head(t) = NL THEN <<BS, "n">> \o EscapeNewlines(Tail(t))
    ELSE <<Head(t)>> \o EscapeNewlines(Tail(t))

RECURSIVE UnescapeNewlines(_)
\* data.replace("\\n", "\n")
UnescapeNewlines(t) ==
    IF t = <<>> THEN <<>>
    ELSE IF Len(t) >= 2 /\ t[1] = BS /\ t[2] = "n"
         THEN <<NL>> \o UnescapeNewlines(Tail(Tail(t)))
    ELSE <<Head(t)>> \o UnescapeNewlines(Tail(t))

\* One SSE frame "event: <event>\ndata: <payload>\n\n": the two fields of the frame.
_sse(event, data) == [event |-> event, data |-> EscapeNewlines(data)]

\* ------------------------------------------------------------------ JSON

RECURSIVE JsonEscape(_)
\* the body of a JSON string literal as json.dumps writes it
JsonEscape(t) ==
    IF t = <<>> THEN <<>>
    ELSE LET c == Head(t)
             e == IF c = NL THEN <<BS, "n">>
                  ELSE IF c = BS THEN <<BS, BS>>
                  ELSE IF c = DQ THEN <<BS, DQ>>
                  ELSE <<c>>
         IN  e \o JsonEscape(Tail(t))

JsonString(t) == <<DQ>> \o JsonEscape(t) \o <<DQ>>

KeyTaskLogId == "{\"task_log_id\": "
KeyAgentId == ", \"agent_id\": "
KeyFinalOutput == ", \"final_output\": "
KeyArtifactPath == ", \"artifact_path\": "

\* json.dumps({"task_log_id": .., "agent_id": .., "final_output": .., "artifact_path": ..});
\* an artifact path of None (here the empty text) is written null.
JsonDumpsPayload(task_log_id, agent_id, final_output, artifact_path) ==
    <<KeyTaskLogId, Str(task_log_id), KeyAgentId, Str(agent_id), KeyFinalOutput>>
    \o JsonString(final_output)
    \o <<KeyArtifactPath>>
    \o (IF artifact_path = <<>> THEN <<"null">> ELSE JsonString(artifact_path))
    \o <<"}">>

RECURSIVE ScanString(_, _, _)
\* Reads a JSON string literal of t whose opening quote is before position i:
\* [ok, value, next], next the position after the closing quote.  A raw newline
\* inside the literal is a control character and fails the parse.
ScanString(t, i, acc) ==
    IF i > Len(t) THEN [ok |-> FALSE, value |-> <<>>, next |-> i]
    ELSE IF t[i] = DQ THEN [ok |-> TRUE, value |-> acc, next |-> i + 1]
    ELSE IF t[i] = NL THEN [ok |-> FALSE, value |-> <<>>, next |-> i]
    ELSE IF t[i] = BS
         THEN IF i + 1 > Len(t) THEN [ok |-> FALSE, value |-> <<>>, next |-> i]
              ELSE IF t[i + 1] = "n" THEN ScanString(t, i + 2, Append(acc, NL))
              ELSE IF t[i + 1] = BS THEN ScanString(t, i + 2, Append(acc, BS))
              ELSE IF t[i + 1] = DQ THEN ScanString(t, i + 2, Append(acc, DQ))
              ELSE [ok |-> FALSE, value |-> <<>>, next |-> i]
    ELSE ScanString(t, i + 1, Append(acc, t[i]))

JsonFail == [ok |-> FALSE, task_log_id |-> 0, agent_id |-> 0,
             final_output |-> <<>>, artifact_path |-> <<>>]

\* json.loads of the text of a final payload: [ok, task_log_id, agent_id,
\* final_output, artifact_path]; ok = FALSE stands for JSONDecodeError.
JsonLoadsPayload(t) ==
    IF ~(Len(t) >= 8 /\ t[1] = KeyTaskLogId /\ IsNumber(t[2]) /\ t[3] = KeyAgentId
         /\ IsNumber(t[4]) /\ t[5] = KeyFinalOutput /\ t[6] = DQ)
    THEN JsonFail
    ELSE LET f == ScanString(t, 7, <<>>)
         IN  IF ~f.ok \/ f.next + 2 > Len(t) \/ t[f.next] # KeyArtifactPath
             THEN JsonFail
             ELSE LET j == f.next + 1
                      done(art, k) ==
                          IF k = Len(t) /\ t[k] = "}"
                          THEN [ok |-> TRUE, task_log_id |-> IntOf(t[2]),
                                agent_id |-> IntOf(t[4]),
                                final_output |-> f.value, artifact_path |-> art]
                          ELSE JsonFail
                  IN  IF t[j] = "null" THEN done(<<>>, j + 1)
                      ELSE IF t[j] = DQ
                           THEN LET a == ScanString(t, j + 1, <<>>)
                                IN  IF a.ok THEN done(a.value, a.next) ELSE JsonFail
                      ELSE JsonFail

\* ----------------------------------------------------------------- paths

\* A path is the sequence of its components; an absolute path starts with "/".
isabs(p) == p # <<>> /\ p[1] = "/"

basename(p) == IF p = <<>> THEN <<>> ELSE <<p[Len(p)]>>

RECURSIVE normpath(_, _)
\* os.path.normpath of an absolute path: "." dropped, ".." removes the component
\* before it (never the root).  acc is the normalised prefix.
normpath(p, acc) ==
    IF p = <<>> THEN acc
    ELSE IF Head(p) = "." THEN normpath(Tail(p), acc)
    ELSE IF Head(p) = ".."
         THEN normpath(Tail(p), IF Len(acc) > 1 THEN SubSeq(acc, 1, Len(acc) - 1) ELSE acc)
    ELSE normpath(Tail(p), Append(acc, Head(p)))

abspath(p) == IF isabs(p) THEN normpath(Tail(p), <<"/">>) ELSE normpath(Tail(Cwd) \o p, <<"/">>)

\* PDFReportTool.generate_report: renders the document and returns the absolute
\* path it wrote.
generate_report(filename) == abspath(filename)

\* ----------------------------------------------------------------- tools

ArgsEmpty == "{}"
ArgsFileX == "{\"filename\": \"x.pdf\"}"
ArgsFileY == "{\"filename\": \"y.pdf\"}"
ArgsUrl == "{\"url\": \"http://u\"}"
ArgsList == "[1]"
ArgsBad == "{not json"
ArgsAbs == "{\"filename\": \"/etc/cron.d/x.pdf\"}"
ArgsSub == "{\"filename\": \"sub/x.pdf\"}"
ArgsDotDot == "{\"filename\": \"../../x.pdf\"}"
ArgsImage == "{\"image_path\": \"cat.png\"}"
ArgsTo == "{\"to\": \"a@b.c\"}"

\* json.loads(arguments_json) if arguments_json else {}: [ok, isobj, value];
\* ok = FALSE stands for JSONDecodeError.
JsonLoadsArgs(a) ==
    CASE a = "" -> [ok |-> TRUE, isobj |-> TRUE, value |-> <<>>]
      [] a = ArgsEmpty -> [ok |-> TRUE, isobj |-> TRUE, value |-> <<>>]
      [] a = ArgsFileX -> [ok |-> TRUE, isobj |-> TRUE, value |-> [filename |-> <<"x.pdf">>]]
      [] a = ArgsFileY -> [ok |-> TRUE, isobj |-> TRUE, value |-> [filename |-> <<"y.pdf">>]]
      [] a = ArgsUrl -> [ok |-> TRUE, isobj |-> TRUE, value |-> [url |-> "http://u"]]
      [] a = ArgsAbs -> [ok |-> TRUE, isobj |-> TRUE,
                         value |-> [filename |-> <<"/", "etc", "cron.d", "x.pdf">>]]
      [] a = ArgsSub -> [ok |-> TRUE, isobj |-> TRUE,
                         value |-> [filename |-> <<"sub", "x.pdf">>]]
      [] a = ArgsDotDot -> [ok |-> TRUE, isobj |-> TRUE,
                            value |-> [filename |-> <<"..", "..", "x.pdf">>]]
      [] a = ArgsImage -> [ok |-> TRUE, isobj |-> TRUE, value |-> [image_path |-> "cat.png"]]
      [] a = ArgsTo -> [ok |-> TRUE, isobj |-> TRUE, value |-> [to |-> <<"a@b.c">>]]
      [] a = ArgsList -> [ok |-> TRUE, isobj |-> FALSE, value |-> <<>>]
      [] OTHER -> [ok |-> FALSE, isobj |-> FALSE, value |-> <<>>]

\* args.get(key, default)
Get(args, key, default) == IF key \in DOMAIN args THEN args[key] ELSE default

\* _TOOL_ALIASES without its entries: every name is taken literally.
_TOOL_ALIASES_Literal(tool_name) == tool_name

_TOOL_ALIASES(tool_name) ==
    CASE tool_name = "pdf_report_tool" -> "generate_pdf_report"
      [] tool_name = "pdf_tool" -> "generate_pdf_report"
      [] tool_name = "scraper_tool" -> "web_scraper_tool"
      [] tool_name = "web_scraper" -> "web_scraper_tool"
      [] OTHER -> tool_name

\* What the capability behind a tool does when it is invoked: it succeeds and
\* returns text, or raises exc.
EnvOk == [ok |-> TRUE, text |-> <<"page", NL, "text">>, exc |-> "-", running |-> FALSE]
EnvFail == [ok |-> FALSE, text |-> <<>>, exc |-> "OSError", running |-> FALSE]

\* The same, for a call made by code that the event loop is running: there
\* asyncio.run raises RuntimeError before the coroutine it is given starts.
InLoop(env) == [env EXCEPT !.running = TRUE]

\* _execute_tool: (observation, artifact); the artifact None is the empty path.
\* capability names the capability that was called ("" when none was).
_execute_tool(tool_name, arguments_json, model_name, env) ==
    LET parsed == JsonLoadsArgs(arguments_json)
        name == _TOOL_ALIASES(tool_name)
        args == parsed.value
        result(obs, art, cap) == [observation |-> obs, artifact |-> art, capability |-> cap]
        failed(exc, cap) ==
            result(<<"ERROR while executing '", name, "': ", exc>>, <<>>, cap)
    IN  IF ~parsed.ok
        THEN result(<<"ERROR: tool arguments could not be parsed as JSON.">>, <<>>, "")
        ELSE IF name = "generate_pdf_report"
        THEN IF ~parsed.isobj THEN failed("AttributeError", "")
             ELSE LET given == Get(args, "filename", <<"report.pdf">>)
                      raw_file == IF isabs(given) THEN basename(given) ELSE given
                      path == generate_report(REPORTS_DIR \o raw_file)
                  IN  IF ~env.ok THEN failed(env.exc, "generate_report")
                      ELSE result(<<"SUCCESS: PDF saved to '">> \o path \o <<"'.">>, path,
                                  "generate_report")
        ELSE IF name = "analyze_image"
        THEN IF ~parsed.isobj THEN failed("AttributeError", "")
             ELSE IF Get(args, "image_path", "") = ""
                  THEN result(<<"ERROR: image_path is required.">>, <<>>, "")
             ELSE IF ~env.ok THEN failed(env.exc, "analyze_image")
             ELSE result(<<"Image analysis result:", NL>> \o env.text, <<>>, "analyze_image")
        ELSE IF name = "web_scraper_tool"
        THEN IF ~parsed.isobj THEN failed("AttributeError", "")
             ELSE LET u1 == Get(args, "url", "")
                      u2 == Get(args, "target_url", "")
                      u3 == Get(args, "source", "")
                      url == IF u1 # "" THEN u1 ELSE IF u2 # "" THEN u2 ELSE u3
                  IN  IF url = ""
                      THEN result(<<"ERROR: 'url' is required for web scraping.">>, <<>>, "")
                      ELSE IF env.running THEN failed("RuntimeError", "scrape_url")
                      ELSE IF ~env.ok THEN failed(env.exc, "scrape_url")
                      ELSE result(<<"Scraped content from ", url, ":", NL>>
                                  \o SubSeq(env.text, 1, IF Len(env.text) < 3000
                                                         THEN Len(env.text) ELSE 3000),
                                  <<>>, "scrape_url")
        ELSE IF name = "send_email"
        THEN IF ~parsed.isobj THEN failed("AttributeError", "")
             ELSE LET to == Get(args, "to", <<>>)
                  IN  IF to = <<>>
                      THEN result(<<"ERROR: 'to' (recipient list) is required.">>, <<>>, "")
                      ELSE IF ~env.ok THEN failed(env.exc, "send_email")
                      ELSE result(<<"SUCCESS: email dispatched to ">> \o to \o <<".">>, <<>>,
                                  "send_email")
        ELSE result(<<"ERROR: unknown tool '", tool_name, "'.">>, <<>>, "")

\* ----------------------------------------------------- agents and prompts

\* The agents table.  tools is the JSON-encoded list stored in the row; a
\* model_name of "" is NULL.
AgentRows ==
    << [id |-> 1, name |-> "Researcher", role |-> "analyst", model_name |-> "",
        backstory |-> "Use the tools.",
        tools |-> "[\"pdf_report_tool\", \"web_scraper_tool\"]"] >>

AgentIds == {1, 2}

\* session.get(Agent, agent_id): the row, or None (the empty sequence)
SessionGetAgent(agent_id) ==
    SelectSeq(AgentRows, LAMBDA a : a.id = agent_id)

\* The tool names of an agent row: json.loads(agent.tools) when it is a list,
\* the raw string as a single name when it is not JSON.
ToolNames(tools) ==
    CASE tools = "" -> <<>>
      [] tools = "[\"pdf_report_tool\", \"web_scraper_tool\"]"
           -> <<"pdf_report_tool", "web_scraper_tool">>
      [] OTHER -> <<tools>>

_build_system_prompt(agent) ==
    LET names == ToolNames(agent.tools)
        persona == <<"You are an AI agent named '", agent.name,
                     "' with the role '", agent.role, "'.">>
        story == IF agent.backstory # ""
                 THEN <<NL, "Background and instructions: ", agent.backstory>>
                 ELSE <<>>
        tools == IF names # <<>>
                 THEN <<NL, "You have access to these tools: ">> \o names
                      \o <<".", NL, "CRITICAL RULES FOR TOOL USE">>
                 ELSE <<>>
    IN  persona \o story \o tools \o <<NL, "Follow the ReAct loop strictly">>

\* The "required" lists of the tool schemas.
PdfRequired == {"title", "content", "filename"}
VisionRequired == {"image_path"}
ScraperRequired == {"url"}
MailRequired == {"to", "subject", "body"}

\* The schema (named by its "name") of every declared tool that has one.
SchemaOf(name) ==
    CASE name = "pdf_report_tool" -> <<"generate_pdf_report">>
      [] name = "vision_analysis_tool" -> <<"analyze_image">>
      [] name = "web_scraper_tool" -> <<"web_scraper_tool">>
      [] name = "send_email" -> <<"send_email">>
      [] OTHER -> <<>>

_get_tool_schemas(agent) ==
    LET names == ToolNames(agent.tools)
    IN  Flatten([i \in 1..Len(names) |-> SchemaOf(names[i])])

\* ------------------------------------------------------- inline tool calls

InlineCall == "{\"tool\": \"pdf_tool\", \"arguments\": {\"filename\": \"y.pdf\"}}"
InlineCallToolName == "{\"tool_name\": \"web_scraper\", \"args\": {\"url\": \"http://u\"}}"
InlineCallName == "{\"name\": \"generate_pdf_report\", \"params\": {\"filename\": \"x.pdf\"}}"
InlineNoTool == "{\"answer\": 42}"
InlineBroken == "{oops}"

\* Tokens that hold a "{" and a "}".
BraceTokens == {InlineCall, InlineCallToolName, InlineCallName, InlineNoTool, InlineBroken}

NoInline == [ok |-> FALSE, name |-> "", arguments |-> ""]

\* _parse_inline_tool_call: the greedy match runs from the first "{" to the last
\* "}" of the text; only a match that is one JSON object naming a tool parses.
\* arguments is json.dumps of the argument mapping found.
_parse_inline_tool_call(text) ==
    LET braces == {i \in 1..Len(text) : text[i] \in BraceTokens}
    IN  IF braces = {} THEN NoInline
        ELSE IF Cardinality(braces) > 1 THEN NoInline
        ELSE LET obj == text[CHOOSE i \in braces : TRUE]
             IN  IF obj = InlineCall
                 THEN [ok |-> TRUE, name |-> "pdf_tool", arguments |-> ArgsFileY]
                 ELSE IF obj = InlineCallToolName
                 THEN [ok |-> TRUE, name |-> "web_scraper", arguments |-> ArgsUrl]
                 ELSE IF obj = InlineCallName
                 THEN [ok |-> TRUE, name |-> "generate_pdf_report", arguments |-> ArgsFileX]
                 ELSE NoInline

\* ------------------------------------------------------- the mocked model

Prompt == <<"Summarise", NL, "the page">>

ImagePaths == {<<>>, <<"uploads", "cat.png">>}

PlainText == <<"All", " ", "done.">>
MultiLineText == <<"First line", NL, "second line">>
InlineText == <<"Calling: ", InlineCall>>
NoToolJsonText == <<"Result ", InlineNoTool>>

\* Texts with an inline call under each of the keys, texts with a call and a
\* second pair of braces behind it, and a text whose braces hold no JSON.
InlineTexts ==
    <<InlineText, <<"I will call ", InlineCallToolName>>, <<InlineCallName, NL, "running it">> >>

TwoObjectsText == <<"Calling: ", InlineCall, " or ", InlineNoTool>>

NoToolTexts == <<NoToolJsonText, TwoObjectsText, <<"Result ", InlineBroken>> >>

\* The tool calls a mocked model proposes, in round-robin order over the run.
ToolPool ==
    << [name |-> "pdf_report_tool", arguments |-> ArgsFileX],
       [name |-> "summarize", arguments |-> ArgsEmpty],
       [name |-> "generate_pdf_report", arguments |-> ""],
       [name |-> "pdf_tool", arguments |-> ArgsFileX],
       [name |-> "web_scraper", arguments |-> ArgsUrl] >>

\* The k-th structured call of a run: tc.id, tc.function.name, tc.function.arguments
ToolCallAt(k) ==
    LET c == ToolPool[((k - 1) % Len(ToolPool)) + 1]
    IN  [id |-> Str(k), function |-> [name |-> c.name, arguments |-> c.arguments]]

\* What the capability does at the k-th tool invocation of a run.
EnvAt(k) == IF k % 4 = 0 THEN EnvFail ELSE EnvOk

\* The shape of a response that continues the loop.
ContinuingShapes ==
    [content : {"none", "plain", "inline"}, n : 1..MaxCalls]
    \cup {[content |-> "inline", n |-> 0]}

\* The responses that end the loop.
TerminalShapes ==
    [content : {"plain", "multiline", "notool", "none"}, n : {0}]

ContentOf(kind) ==
    CASE kind = "plain" -> PlainText
      [] kind = "multiline" -> MultiLineText
      [] kind = "inline" -> InlineText
      [] kind = "notool" -> NoToolJsonText
      [] OTHER -> <<>>

\* The text of the kind that the mocked model writes when k tool invocations
\* were made: the inline calls and the texts without a call take turns.
ContentAt(kind, k) ==
    CASE kind = "inline" -> InlineTexts[(k % Len(InlineTexts)) + 1]
      [] kind = "notool" -> NoToolTexts[(k % Len(NoToolTexts)) + 1]
      [] OTHER -> ContentOf(kind)

\* response.choices[0].message for a shape, when k tool invocations were made
MessageOf(shape, k) ==
    [content |-> ContentAt(shape.content, k),
     tool_calls |-> [i \in 1..shape.n |-> ToolCallAt(k + i)]]

\* The shapes the mocked model may answer with at this step of run s.
ShapesAt(s) ==
    TerminalShapes
    \cup (IF Len(s.mock) < MaxPattern THEN ContinuingShapes
          ELSE {s.mock[(s.step % MaxPattern) + 1]})

\* ------------------------------------------------------------- run state

NoMessage == [content |-> <<>>, tool_calls |-> <<>>]

\* A run of stream_agent_task before its first __anext__.  pc is the suspension
\* point; events are the frames handed to the consumer so far.  queries,
\* responses, invocations, turn, exit, raised and escaped record what the run
\* did (created: the ids of the TaskLog rows it added); mock is the memory of
\* the mocked model.
NewRun ==
    [pc |-> "start",
     agent_id |-> 0, user_prompt |-> <<>>, image_path |-> <<>>,
     session |-> "none", agent |-> <<>>, model_name |-> "", tool_schemas |-> <<>>,
     messages |-> <<>>, thought_log |-> <<>>,
     final_answer |-> <<>>, last_artifact_path |-> <<>>,
     step |-> 0, message |-> NoMessage, tc |-> 0,
     t_name |-> "", t_args |-> "", observation |-> <<>>, log |-> <<>>,
     events |-> <<>>,
     queries |-> 0, responses |-> <<>>, invocations |-> <<>>,
     turn |-> [n |-> 0, messages |-> 0, events |-> 0, invocations |-> 0, queries |-> 0],
     exit |-> "none", raised |-> FALSE, escaped |-> "", created |-> {},
     mock |-> <<>>]

Pair(s, d) == [s |-> s, db |-> d]

\* yield _sse(event, data): the frame is handed to the consumer and the
\* generator is suspended at pc.
Yield(s, event, data, pc) ==
    [s EXCEPT !.events = Append(@, _sse(event, data)), !.pc = pc]

\* session.close()
SessionClose(s) == [s EXCEPT !.session = "closed"]

\* Finally with the sentinel forgotten: the session is closed, no frame is sent.
Finally_NoDone(s) == [SessionClose(s) EXCEPT !.pc = "y_done"]

\* finally: session.close(); yield _sse("done", "[DONE]")
Finally(s) == Yield(SessionClose(s), "done", <<"[DONE]">>, "y_done")

\* Except with a handler that re-raises: no error frame, the exception leaves
\* the generator after the finally block.
Except_Reraise(s, exc) == [s EXCEPT !.escaped = exc, !.pc = "y_error"]

\* except Exception as exc: yield _sse("error", f"Fatal error: {exc}")
Except(s, exc) == Yield(s, "error", <<"Fatal error: ", exc>>, "y_error")

\* An exception raised inside the try block reaches the handler.
Raise(s, exc) == Except([s EXCEPT !.raised = TRUE], exc)

\* InRange off by one: range(MAX_REACT_STEPS + 1)
InRange_OffByOne(step) == step <= MAX_REACT_STEPS

\* for step in range(MAX_REACT_STEPS)
InRange(step) == step < MAX_REACT_STEPS

\* The head of the loop body: the progress frame of the step.
LoopHead(s, step) ==
    Yield([s EXCEPT !.step = step], "thought",
          <<"[Step ", Str(step + 1), "] Querying model ", s.model_name, "...">>,
          "y_step")

\* Persist with the row added twice.
Persist_Duplicate(s, d, final_answer, persist) ==
    LET log == [id |-> Len(d) + 1, agent_id |-> s.agent[1].id,
                input_query |-> s.user_prompt,
                thought_process |-> Join(s.thought_log, <<NL>>),
                final_output |-> final_answer]
    IN  [ok |-> persist = "ok",
         db |-> IF persist = "commit_fails" THEN d
                ELSE d \o <<log, [log EXCEPT !.id = Len(d) + 2]>>,
         log |-> log]

\* Persist without the commit: the row never reaches the table.
Persist_NoCommit(s, d, final_answer, persist) ==
    [ok |-> persist = "ok",
     db |-> d,
     log |-> [id |-> Len(d) + 1, agent_id |-> s.agent[1].id,
              input_query |-> s.user_prompt,
              thought_process |-> Join(s.thought_log, <<NL>>),
              final_output |-> final_answer]]

\* Persist with a transcript kept in one place for all runs: the transcript of
\* the last record written is carried into the next one.
Persist_SharedTranscript(s, d, final_answer, persist) ==
    LET shared == IF d = <<>> THEN <<>> ELSE d[Len(d)].thought_process \o <<NL>>
        log == [id |-> Len(d) + 1, agent_id |-> s.agent[1].id,
                input_query |-> s.user_prompt,
                thought_process |-> shared \o Join(s.thought_log, <<NL>>),
                final_output |-> final_answer]
    IN  [ok |-> persist = "ok",
         db |-> IF persist = "commit_fails" THEN d ELSE Append(d, log),
         log |-> log]

\* TaskLog(...); session.add(log); session.commit(); session.refresh(log)
\* persist is what the database does: "ok", "commit_fails", "refresh_fails".
\* [ok, db, log]
Persist(s, d, final_answer, persist) ==
    LET log == [id |-> Len(d) + 1, agent_id |-> s.agent[1].id,
                input_query |-> s.user_prompt,
                thought_process |-> Join(s.thought_log, <<NL>>),
                final_output |-> final_answer]
    IN  [ok |-> persist = "ok",
         db |-> IF persist = "commit_fails" THEN d ELSE Append(d, log),
         log |-> log]

\* After the loop: the placeholder answer, the TaskLog, the final frame.
LoopEnd(s, d, persist) ==
    LET final_answer == IF s.final_answer = <<>> THEN NoFinalText ELSE s.final_answer
        p == Persist(s, d, final_answer, persist)
        s1 == [s EXCEPT !.final_answer = final_answer,
                        !.created = @ \cup ((Len(d) + 1)..Len(p.db))]
    IN  IF ~p.ok
        THEN Pair(Raise(s1, IF persist = "commit_fails" THEN "OperationalError"
                            ELSE "InvalidRequestError"), p.db)
        ELSE Pair(Yield([s1 EXCEPT !.log = <<p.log>>], "final",
                        JsonDumpsPayload(p.log.id, s.agent[1].id, final_answer,
                                         s.last_artifact_path),
                        "y_final"),
                  p.db)

\* continue: the next step, or the end of the loop when the range is used up.
Continue(s, d, persist) ==
    IF InRange(s.step + 1) THEN Pair(LoopHead(s, s.step + 1), d)
    ELSE LoopEnd([s EXCEPT !.exit = "exhausted"], d, persist)

\* for tc in tool_calls: yield the action frame of call number i
YieldAction(s, i) ==
    LET tc == s.message.tool_calls[i]
        t_name == tc.function.name
        t_args == IF tc.function.arguments = "" THEN "{}" ELSE tc.function.arguments
    IN  Yield([s EXCEPT !.tc = i, !.t_name = t_name, !.t_args = t_args], "action",
              <<"[ACTION] Executing tool: ", t_name, NL, "Args: ", t_args>>,
              "y_action")

\* KeepArtifact without the test: every invocation overwrites the path.
KeepArtifact_Overwrite(last, artifact) == artifact

\* if artifact: last_artifact_path = artifact
KeepArtifact(last, artifact) == IF artifact # <<>> THEN artifact ELSE last

\* RunTool without the ACTION entry in the thought log.
RunTool_NoActionLog(s, pc) ==
    LET k == Len(s.invocations) + 1
        r == _execute_tool(s.t_name, s.t_args, s.model_name, InLoop(EnvAt(k)))
    IN  Yield([s EXCEPT
                 !.thought_log = Append(@,
                     <<"OBSERVATION (step ", Str(s.step), "): ">> \o r.observation),
                 !.last_artifact_path = IF r.artifact # <<>> THEN r.artifact ELSE @,
                 !.observation = r.observation,
                 !.invocations = Append(@, [name |-> s.t_name, arguments |-> s.t_args,
                                            step |-> s.step,
                                            observation |-> r.observation,
                                            artifact |-> r.artifact])],
              "observation", <<"[OBSERVATION] ">> \o r.observation, pc)

\* After an action frame (structured or inline): the log entry, the tool, the
\* observation frame.
RunTool(s, pc) ==
    LET k == Len(s.invocations) + 1
        r == _execute_tool(s.t_name, s.t_args, s.model_name, InLoop(EnvAt(k)))
    IN  Yield([s EXCEPT
                 !.thought_log = @ \o
                     << <<"ACTION (step ", Str(s.step), "): ", s.t_name, " | ", s.t_args>>,
                        <<"OBSERVATION (step ", Str(s.step), "): ">> \o r.observation >>,
                 !.last_artifact_path = KeepArtifact(@, r.artifact),
                 !.observation = r.observation,
                 !.invocations = Append(@, [name |-> s.t_name, arguments |-> s.t_args,
                                            step |-> s.step,
                                            observation |-> r.observation,
                                            artifact |-> r.artifact])],
              "observation", <<"[OBSERVATION] ">> \o r.observation, pc)

\* FeedBack with the assistant message left out: only the tool result is appended.
FeedBack_ToolOnly(s) ==
    LET tc == s.message.tool_calls[s.tc]
    IN  [s EXCEPT !.messages = Append(@,
           [role |-> "tool", tool_call_id |-> tc.id, name |-> s.t_name,
            content |-> s.observation])]

\* messages.append(assistant tool_calls); messages.append(tool result)
FeedBack(s) ==
    LET tc == s.message.tool_calls[s.tc]
    IN  [s EXCEPT !.messages = @ \o
           << [role |-> "assistant",
               tool_calls |-> << [id |-> tc.id, type |-> "function",
                                  function |-> [name |-> s.t_name,
                                                arguments |-> s.t_args]] >>],
              [role |-> "tool", tool_call_id |-> tc.id, name |-> s.t_name,
               content |-> s.observation] >>]

\* messages.append(the synthetic assistant note of an inline call)
FeedBackInline(s) ==
    [s EXCEPT !.messages = Append(@,
        [role |-> "assistant",
         content |-> <<"[Tool '", s.t_name, "' executed.]", NL>> \o s.observation])]

\* AfterContent with the text of the final answer dropped.
AfterContent_DropsText(s, d, persist) ==
    LET message == s.message
        parsed == _parse_inline_tool_call(message.content)
    IN  IF message.tool_calls # <<>> THEN Pair(YieldAction(s, 1), d)
        ELSE IF message.content # <<>> /\ parsed.ok
        THEN Pair(Yield([s EXCEPT !.t_name = parsed.name, !.t_args = parsed.arguments],
                        "action",
                        <<"[ACTION] Intercepted inline tool call: ", parsed.name, NL,
                          "Args: ", parsed.arguments>>,
                        "y_inline_action"),
                  d)
        ELSE IF message.content # <<>>
        THEN LoopEnd([s EXCEPT !.exit = "final"],
                     d, persist)
        ELSE LoopEnd([s EXCEPT !.exit = "empty"], d, persist)

\* AfterContent with the empty response treated as a failure.
AfterContent_EmptyRaises(s, d, persist) ==
    LET message == s.message
        parsed == _parse_inline_tool_call(message.content)
    IN  IF message.tool_calls # <<>> THEN Pair(YieldAction(s, 1), d)
        ELSE IF message.content # <<>> /\ parsed.ok
        THEN Pair(Yield([s EXCEPT !.t_name = parsed.name, !.t_args = parsed.arguments],
                        "action",
                        <<"[ACTION] Intercepted inline tool call: ", parsed.name, NL,
                          "Args: ", parsed.arguments>>,
                        "y_inline_action"),
                  d)
        ELSE IF message.content # <<>>
        THEN LoopEnd([s EXCEPT !.final_answer = message.content, !.exit = "final"],
                     d, persist)
        ELSE Pair(Raise([s EXCEPT !.exit = "empty"], "ValueError"), d)

\* AfterContent with the inline call looked for before the structured calls.
AfterContent_InlineFirst(s, d, persist) ==
    LET message == s.message
        parsed == _parse_inline_tool_call(message.content)
    IN  IF message.content # <<>> /\ parsed.ok
        THEN Pair(Yield([s EXCEPT !.t_name = parsed.name, !.t_args = parsed.arguments],
                        "action",
                        <<"[ACTION] Intercepted inline tool call: ", parsed.name, NL,
                          "Args: ", parsed.arguments>>,
                        "y_inline_action"),
                  d)
        ELSE IF message.tool_calls # <<>> THEN Pair(YieldAction(s, 1), d)
        ELSE IF message.content # <<>>
        THEN LoopEnd([s EXCEPT !.final_answer = message.content, !.exit = "final"],
                     d, persist)
        ELSE LoopEnd([s EXCEPT !.exit = "empty"], d, persist)

\* The step after the optional thought frame: structured calls, an inline call,
\* the final answer, or the empty response.
AfterContent(s, d, persist) ==
    LET message == s.message
        parsed == _parse_inline_tool_call(message.content)
    IN  IF message.tool_calls # <<>> THEN Pair(YieldAction(s, 1), d)
        ELSE IF message.content # <<>> /\ parsed.ok
        THEN Pair(Yield([s EXCEPT !.t_name = parsed.name, !.t_args = parsed.arguments],
                        "action",
                        <<"[ACTION] Intercepted inline tool call: ", parsed.name, NL,
                          "Args: ", parsed.arguments>>,
                        "y_inline_action"),
                  d)
        ELSE IF message.content # <<>>
        THEN LoopEnd([s EXCEPT !.final_answer = message.content, !.exit = "final"],
                     d, persist)
        ELSE LoopEnd([s EXCEPT !.exit = "empty"], d, persist)

\* The response of the model arrives: choice.message, the thought frame.
Respond(s, d, shape, persist) ==
    LET message == MessageOf(shape, Len(s.invocations))
        s1 == [s EXCEPT
                 !.message = message,
                 !.responses = Append(@, message),
                 !.mock = IF shape \in ContinuingShapes /\ Len(@) < MaxPattern
                          THEN Append(@, shape) ELSE @,
                 !.turn = [n |-> Len(message.tool_calls), messages |-> Len(s.messages),
                           events |-> Len(s.events)
                                      + (IF message.content # <<>> THEN 1 ELSE 0),
                           invocations |-> Len(s.invocations),
                           queries |-> s.queries]]
    IN  IF message.content # <<>>
        THEN Pair(Yield([s1 EXCEPT !.thought_log = Append(@,
                            <<"THOUGHT (step ", Str(s.step), "): ">> \o message.content)],
                        "thought", message.content, "y_thought"),
                  d)
        ELSE AfterContent(s1, d, persist)

\* The code from the first __anext__ to the first yield.  fault names the
\* operation that raises, if any.
BeginWith(s, agent_id, user_prompt, image_path, fault) ==
    LET s0 == [s EXCEPT !.agent_id = agent_id, !.user_prompt = user_prompt,
                        !.image_path = image_path, !.session = "open"]
        agent == SessionGetAgent(agent_id)
    IN  IF fault = "get" THEN Raise(s0, "OperationalError")
        ELSE IF agent = <<>>
        THEN Yield(s0, "error", <<"Agent #", Str(agent_id), " not found.">>, "y_notfound")
        ELSE IF fault = "setup" THEN Raise([s0 EXCEPT !.agent = agent], "TypeError")
        ELSE LET a == agent[1]
                 note == IF image_path # <<>>
                         THEN <<NL, NL, "[Note: an image is available]", NL, "image_path: ">>
                              \o image_path
                         ELSE <<>>
                 s1 == [s0 EXCEPT
                          !.agent = agent,
                          !.model_name = IF a.model_name # "" THEN a.model_name
                                         ELSE DEFAULT_MODEL_NAME,
                          !.tool_schemas = _get_tool_schemas(a),
                          !.messages = << [role |-> "system",
                                           content |-> _build_system_prompt(a)],
                                          [role |-> "user",
                                           content |-> user_prompt \o note] >>,
                          !.thought_log = << <<"USER: ">> \o user_prompt >>
                              \o (IF image_path # <<>>
                                  THEN << <<"USER IMAGE: ">> \o image_path >>
                                  ELSE <<>>)]
             IN  LoopHead(s1, 0)

\* stream_agent_task called with the prompt of the API request.
Begin(s, agent_id, image_path, fault) == BeginWith(s, agent_id, Prompt, image_path, fault)

\* GeneratorExit with the release outside a finally block: closing the stream
\* skips it.
GeneratorExit_NoFinally(s) == [s EXCEPT !.pc = "closed"]

\* The consumer closes or abandons the stream (aclose): GeneratorExit is raised
\* at the yield the run is suspended at.  except Exception does not catch it;
\* the finally block runs, and its yield makes aclose fail with RuntimeError.
GeneratorExit(s) ==
    IF s.pc \in {"start", "y_done"} THEN [s EXCEPT !.pc = "closed"]
    ELSE [SessionClose(s) EXCEPT !.pc = "closed", !.escaped = "RuntimeError"]

\* ------------------------------------------------- one tool invocation

\* A call of _execute_tool on its own: the arguments, what the capability behind
\* the tool would do (env), and the returned pair once the call has returned.
NoCall == [pc |-> "idle", tool_name |-> "", arguments_json |-> "", env |-> EnvOk,
           returned |-> <<>>]

\* The tool names a model can ask for: the aliases, the literal capability names,
\* and names no capability answers to.
ToolNamesAsked ==
    {"pdf_report_tool", "pdf_tool", "scraper_tool", "web_scraper",
     "generate_pdf_report", "analyze_image", "web_scraper_tool", "send_email",
     "vision_analysis_tool", "summarize"}

ArgumentTexts ==
    {"", ArgsEmpty, ArgsFileX, ArgsFileY, ArgsUrl, ArgsList, ArgsBad, ArgsAbs, ArgsSub,
     ArgsDotDot, ArgsImage, ArgsTo}

\* ------------------------------------------------ reading a frame

Whitespace == {" ", "\t", NL}

RECURSIVE LStrip(_)
LStrip(t) == IF t # <<>> /\ Head(t) \in Whitespace THEN LStrip(Tail(t)) ELSE t

RECURSIVE RStrip(_)
RStrip(t) ==
    IF t # <<>> /\ t[Len(t)] \in Whitespace THEN RStrip(SubSeq(t, 1, Len(t) - 1)) ELSE t

\* str.strip(), on whole tokens
Strip(t) == RStrip(LStrip(t))

\* The data field as run_agent_task reads it from a frame:
\* line[5:].strip().replace("\\n", "\n")
FrameData(frame) == UnescapeNewlines(Strip(frame.data))

\* ------------------------------------------------- the workflow executor

\* Most edges of a submitted graph.
MaxEdges == 3

\* The ids a graph can name; its nodes are the first two or three of them, so
\* that with two nodes the third id is the id of no node.
NodeIds == <<"A", "B", "C">>

\* The values a node produces: None, text, a mapping, or a list of values.
Null == [t |-> "null", v |-> <<>>, items |-> <<>>]
Text(v) == [t |-> "text", v |-> v, items |-> <<>>]
Mapping(v) == [t |-> "map", v |-> v, items |-> <<>>]
List(items) == [t |-> "list", v |-> <<>>, items |-> items]

\* _merge_inputs joining with one newline instead of a blank line.
_merge_inputs_OneNewline(inputs) ==
    IF inputs = <<>> THEN Null
    ELSE IF Len(inputs) = 1 THEN inputs[1]
    ELSE IF \A i \in 1..Len(inputs) : inputs[i].t = "text"
    THEN Text(Join([i \in 1..Len(inputs) |-> inputs[i].v], <<NL>>))
    ELSE List(inputs)

\* WorkflowExecutor._merge_inputs
_merge_inputs(inputs) ==
    IF inputs = <<>> THEN Null
    ELSE IF Len(inputs) = 1 THEN inputs[1]
    ELSE IF \A i \in 1..Len(inputs) : inputs[i].t = "text"
    THEN Text(Join([i \in 1..Len(inputs) |-> inputs[i].v], <<NL, NL>>))
    ELSE List(inputs)

\* The (type, key, config) of the nodes submitted: a URL source, the web scraper
\* without a configured URL, and an output node.
\* config.text is the configuration mapping as text; config.url, config.agent_id
\* and config.prompt_prefix are its entries of these names (empty when there is
\* none); config.to is the list of recipients and config.filename the path of
\* the report, each empty when the mapping has no such entry.
Config(text, url, agent_id, prompt_prefix) ==
    [text |-> text, url |-> url, agent_id |-> agent_id, prompt_prefix |-> prompt_prefix,
     to |-> <<>>, filename |-> <<>>]

\* The value an output node, a node of an unknown type and a node with a key its
\* type has no behaviour for return: "return data".
PassThrough_Null(data) == Null

PassThrough(data) == data

NodeKinds ==
    { [type |-> "source", key |-> "url_input",
       config |-> Config("{\"url\": \"http://u\"}", <<"http://u">>, <<>>, <<>>)],
      [type |-> "tool", key |-> "web_scraper", config |-> Config("{}", <<>>, <<>>, <<>>)],
      [type |-> "output", key |-> "result", config |-> Config("{}", <<>>, <<>>, <<>>)] }

\* str(data) of a node's input: the text itself; of a mapping or a list, its repr.
StrOf(data) == IF data.t = "text" THEN data.v ELSE <<"repr of a ", data.t>>

\* The prompt an agent node gives the reasoning loop:
\* f"{prompt_prefix}\n\n{base_prompt}" if prompt_prefix else base_prompt
full_prompt(config, data) ==
    LET base_prompt == IF data # Null THEN StrOf(data) ELSE <<>>
    IN  IF config.prompt_prefix # <<>> THEN config.prompt_prefix \o <<NL, NL>> \o base_prompt
        ELSE base_prompt

RECURSIVE ReadFinalOutput_ErrorToo(_, _)
\* The loop over the frames taking the payload of an 'error' frame as well.
ReadFinalOutput_ErrorToo(frames, final_output) ==
    IF frames = <<>> THEN final_output
    ELSE LET evt == Head(frames).event
             payload == FrameData(Head(frames))
             parsed == JsonLoadsPayload(payload)
         IN  IF evt \in {"final", "error"} /\ payload # <<>>
             THEN ReadFinalOutput_ErrorToo(Tail(frames),
                                  IF parsed.ok THEN parsed.final_output ELSE payload)
             ELSE ReadFinalOutput_ErrorToo(Tail(frames), final_output)

RECURSIVE ReadFinalOutput(_, _)
\* The agent node's loop over the frames of the stream: final_output is the
\* value so far.  A non-empty 'final' payload that parses gives its
\* "final_output" entry, one that does not parse is taken whole.
ReadFinalOutput(frames, final_output) ==
    IF frames = <<>> THEN final_output
    ELSE LET evt == Head(frames).event
             payload == FrameData(Head(frames))
             parsed == JsonLoadsPayload(payload)
         IN  IF evt = "final" /\ payload # <<>>
             THEN ReadFinalOutput(Tail(frames),
                                  IF parsed.ok THEN parsed.final_output ELSE payload)
             ELSE ReadFinalOutput(Tail(frames), final_output)

\* _execute_node with an agent node that lacks an agent_id passing its input on.
_execute_node_AgentPassThrough(node_type, key, config, data, env) ==
    LET return(value) == [ok |-> TRUE, value |-> value, exc |-> "", capability |-> ""]
        returned(value, cap) == [ok |-> TRUE, value |-> value, exc |-> "", capability |-> cap]
        raise(exc, cap) == [ok |-> FALSE, value |-> Null, exc |-> exc, capability |-> cap]
        url == IF config.url # <<>> THEN Text(config.url) ELSE data
        filename == IF config.filename # <<>> THEN config.filename
                    ELSE <<"workflow_report.pdf">>
        output_path == REPORTS_DIR \o basename(filename)
    IN  IF node_type = "source" /\ key = "url_input" THEN return(url)
        ELSE IF node_type = "source" /\ key = "schedule"
        THEN return(Mapping(<<"schedule", config.text>>))
        ELSE IF node_type = "tool" /\ key = "web_scraper"
        THEN IF url.t # "text" THEN raise("ValueError", "")
             ELSE IF env.ok THEN returned(Text(env.text), "scrape_url")
             ELSE raise(env.exc, "scrape_url")
        ELSE IF node_type = "tool" /\ key = "email_sender"
        THEN IF config.to = <<>> THEN return(Mapping(<<"status", "sent", "to">>))
             ELSE IF env.ok
             THEN returned(Mapping(<<"status", "sent", "to">> \o config.to), "send_email")
             ELSE raise(env.exc, "send_email")
        ELSE IF node_type = "tool" /\ key = "pdf_report"
        THEN IF env.ok THEN returned(Mapping(<<"pdf_path">> \o output_path), "generate_report")
             ELSE raise(env.exc, "generate_report")
        ELSE IF node_type = "agent" /\ config.agent_id # <<>>
        THEN returned(Text(ReadFinalOutput(env.frames, <<>>)), "stream_agent_task")
        ELSE return(PassThrough(data))

\* WorkflowExecutor._execute_node for these behaviours: [ok, value, exc]; env is
\* what the page fetch does and, for an agent node, the frames that
\* stream_agent_task(agent_id, full_prompt) yields.
_execute_node(node_type, key, config, data, env) ==
    LET return(value) == [ok |-> TRUE, value |-> value, exc |-> "", capability |-> ""]
        returned(value, cap) == [ok |-> TRUE, value |-> value, exc |-> "", capability |-> cap]
        raise(exc, cap) == [ok |-> FALSE, value |-> Null, exc |-> exc, capability |-> cap]
        url == IF config.url # <<>> THEN Text(config.url) ELSE data
        filename == IF config.filename # <<>> THEN config.filename
                    ELSE <<"workflow_report.pdf">>
        output_path == REPORTS_DIR \o basename(filename)
    IN  IF node_type = "source" /\ key = "url_input" THEN return(url)
        ELSE IF node_type = "source" /\ key = "schedule"
        THEN return(Mapping(<<"schedule", config.text>>))
        ELSE IF node_type = "tool" /\ key = "web_scraper"
        THEN IF url.t # "text" THEN raise("ValueError", "")
             ELSE IF env.ok THEN returned(Text(env.text), "scrape_url")
             ELSE raise(env.exc, "scrape_url")
        ELSE IF node_type = "tool" /\ key = "email_sender"
        THEN IF config.to = <<>> THEN return(Mapping(<<"status", "sent", "to">>))
             ELSE IF env.ok
             THEN returned(Mapping(<<"status", "sent", "to">> \o config.to), "send_email")
             ELSE raise(env.exc, "send_email")
        ELSE IF node_type = "tool" /\ key = "pdf_report"
        THEN IF env.ok THEN returned(Mapping(<<"pdf_path">> \o output_path), "generate_report")
             ELSE raise(env.exc, "generate_report")
        ELSE IF node_type = "agent"
        THEN IF config.agent_id = <<>> THEN raise("ValueError", "")
             ELSE returned(Text(ReadFinalOutput(env.frames, <<>>)), "stream_agent_task")
        ELSE return(PassThrough(data))

\* The submitted graphs: two or three nodes of any kind and up to max_edges edges
\* between any ids, in any order, repeated edges and self-loops included.
Graphs(max_edges) ==
    LET Ids == {NodeIds[i] : i \in 1..Len(NodeIds)}
        Edges == [source : Ids, target : Ids]
    IN  { [nodes |-> [i \in 1..n |-> [id |-> NodeIds[i], type |-> kinds[i].type,
                                      key |-> kinds[i].key, config |-> kinds[i].config]],
           edges |-> edges] :
          n \in {Len(NodeIds) - 1, Len(NodeIds)},
          kinds \in [1..Len(NodeIds) -> NodeKinds],
          edges \in UNION {[1..k -> Edges] : k \in 0..max_edges} }

\* Incoming with the parents of nid listed in the order of the node ids, each
\* parent once.
Incoming_ByParent(edges, nid) ==
    SelectSeq(NodeIds, LAMBDA p : \E k \in 1..Len(edges) :
                                     edges[k].source = p /\ edges[k].target = nid)

\* incoming[nid]: the sources of the edges into nid, in edge order
Incoming(edges, nid) ==
    LET into == SelectSeq(edges, LAMBDA e : e.target = nid)
    IN  [i \in 1..Len(into) |-> into[i].source]

\* outgoing[nid]: the targets of the edges out of nid, in edge order
Outgoing(edges, nid) ==
    LET from == SelectSeq(edges, LAMBDA e : e.source = nid)
    IN  [i \in 1..Len(from) |-> from[i].target]

\* InitialReady with every node ready at the start.
InitialReady_All(nodes, incoming) == [i \in 1..Len(nodes) |-> nodes[i].id]

\* InitialReady with the nodes that have children only.
InitialReady_WithChildren(nodes, incoming) ==
    LET first == SelectSeq(nodes, LAMBDA n :
                     incoming[n.id] = <<>> /\ \E m \in DOMAIN incoming :
                                                 \E i \in 1..Len(incoming[m]) :
                                                     incoming[m][i] = n.id)
    IN  [i \in 1..Len(first) |-> first[i].id]

\* ready = [nid for nid, inc in incoming.items() if not inc]
InitialReady(nodes, incoming) ==
    LET first == SelectSeq(nodes, LAMBDA n : incoming[n.id] = <<>>)
    IN  [i \in 1..Len(first) |-> first[i].id]

\* InputPayloads taking the results of every completed node.
InputPayloads_AllResults(results, incoming, nid) ==
    LET have == SelectSeq(NodeIds, LAMBDA p : p \in DOMAIN results)
    IN  [i \in 1..Len(have) |-> results[have[i]]]

\* input_payloads = [results[p] for p in incoming.get(nid, []) if p in results]
InputPayloads(results, incoming, nid) ==
    LET have == SelectSeq(incoming[nid], LAMBDA p : p \in DOMAIN results)
    IN  [i \in 1..Len(have) |-> results[have[i]]]

\* Record leaving out the nodes that produced None.
Record_SkipNone(results, nid, result) ==
    IF result = Null THEN results ELSE (nid :> result) @@ results

\* results[nid] = result
Record(results, nid, result) == (nid :> result) @@ results

\* ReadyChildren with a child ready as soon as one of its parents has completed.
ReadyChildren_AnyParent(outgoing, incoming, completed, nid) ==
    SelectSeq(outgoing[nid],
              LAMBDA child : \E i \in 1..Len(incoming[child]) :
                                 incoming[child][i] \in completed)

\* for child in outgoing.get(nid, []):
\*     if all(parent in completed for parent in incoming.get(child, [])): ready.append(child)
ReadyChildren(outgoing, incoming, completed, nid) ==
    SelectSeq(outgoing[nid],
              LAMBDA child : \A i \in 1..Len(incoming[child]) :
                                 incoming[child][i] \in completed)

\* ready.append(child) with the child put at the head of the list.
Enqueue_AtFront(ready, children) == children \o ready

\* ready.append(child), for the children found ready, in their order
Enqueue(ready, children) == ready \o children

\* A failure of the node taken from the ready list that is swallowed: the loop
\* goes on with the next ready node.
Propagate_Swallow(w, exc, entries) ==
    [w EXCEPT !.ready = Tail(@), !.executed = @ \o entries]

\* An exception raised while the node taken from the ready list is looked up or
\* executed: nothing in execute_graph catches it, the call ends with it.
\* entries holds the record of the behaviour that was started, if one was.
Propagate(w, exc, entries) ==
    [w EXCEPT !.pc = "raised", !.error = exc, !.ready = Tail(@),
              !.executed = @ \o entries]

\* The same, with the parsed configuration stored back into the node.
Complete_StoresConfig(w, nid, entry, value) ==
    LET completed == w.completed \cup {nid}
    IN  [w EXCEPT !.ready = Enqueue(Tail(@), ReadyChildren(w.outgoing, w.incoming,
                                                           completed, nid)),
                  !.results = Record(@, nid, value),
                  !.completed = completed,
                  !.executed = Append(@, entry),
                  !.nodes = [i \in DOMAIN w.nodes |->
                               IF w.nodes[i].id = nid
                               THEN [w.nodes[i] EXCEPT !.config.text = "parsed"]
                               ELSE w.nodes[i]]]

\* The node taken from the ready list returned value: the result is recorded,
\* the node is completed and its ready children are appended.
Complete(w, nid, entry, value) ==
    LET completed == w.completed \cup {nid}
    IN  [w EXCEPT !.ready = Enqueue(Tail(@), ReadyChildren(w.outgoing, w.incoming,
                                                           completed, nid)),
                  !.results = Record(@, nid, value),
                  !.completed = completed,
                  !.executed = Append(@, entry)]

\* An agent node that has an agent_id: its behaviour runs the reasoning loop.
Invokes(node) == node.type = "agent" /\ node.config.agent_id # <<>>

\* No graph has been submitted.  invoked is the record of the reasoning-loop
\* runs that agent nodes consumed.
NoWorkflow ==
    [pc |-> "idle", nodes |-> <<>>, edges |-> <<>>, incoming |-> <<>>, outgoing |-> <<>>,
     ready |-> <<>>, results |-> <<>>, completed |-> {}, executed |-> <<>>,
     invoked |-> <<>>, session |-> "none", error |-> ""]

\* WorkflowExecutor() has been constructed (its session is open) and
\* execute_graph(graph) has been called.
Submitted(graph) ==
    [NoWorkflow EXCEPT !.pc = "submitted", !.nodes = graph.nodes, !.edges = graph.edges,
                       !.session = "open"]

\* --------------------------------------------------------------- actions

RunIds == {1}

PersistOutcomes == {"ok", "commit_fails", "refresh_fails"}

YieldPoints ==
    {"y_notfound", "y_notfound_done", "y_step", "y_thought", "y_action",
     "y_observation", "y_inline_action", "y_inline_observation", "y_final",
     "y_error", "y_done"}

Set(r, s) == runs' = [runs EXCEPT ![r] = s] /\ UNCHANGED <<call, wf>>

SetBoth(r, p) == runs' = [runs EXCEPT ![r] = p.s] /\ db' = p.db /\ UNCHANGED <<call, wf>>

Start(r) ==
    /\ runs[r].pc = "start"
    /\ \E agent_id \in AgentIds, image_path \in ImagePaths,
          fault \in {"none", "get", "setup"} :
          Set(r, Begin(runs[r], agent_id, image_path, fault))
    /\ UNCHANGED db

\* yield _sse("done", "[DONE]") of the agent-not-found branch
ResumeNotFound(r) ==
    /\ runs[r].pc = "y_notfound"
    /\ Set(r, Yield(runs[r], "done", <<"[DONE]">>, "y_notfound_done"))
    /\ UNCHANGED db

\* return of the agent-not-found branch: the finally block runs
ResumeNotFoundDone(r) ==
    /\ runs[r].pc = "y_notfound_done"
    /\ Set(r, Finally(runs[r]))
    /\ UNCHANGED db

\* client.chat.completions.create(...) is issued and awaited
IssueQuery(r) ==
    /\ runs[r].pc = "y_step"
    /\ Set(r, [runs[r] EXCEPT !.pc = "await_model", !.queries = @ + 1])
    /\ UNCHANGED db

ModelResponds(r) ==
    /\ runs[r].pc = "await_model"
    /\ \E shape \in ShapesAt(runs[r]), persist \in PersistOutcomes :
          SetBoth(r, Respond(runs[r], db, shape, persist))

\* The model call, or reading response.choices[0], raises.
ModelRaises(r) ==
    /\ runs[r].pc = "await_model"
    /\ \E exc \in {"ConnectionError", "IndexError"} : Set(r, Raise(runs[r], exc))
    /\ UNCHANGED db

ResumeThought(r) ==
    /\ runs[r].pc = "y_thought"
    /\ \E persist \in PersistOutcomes : SetBoth(r, AfterContent(runs[r], db, persist))

ResumeAction(r) ==
    /\ runs[r].pc = "y_action"
    /\ Set(r, RunTool(runs[r], "y_observation"))
    /\ UNCHANGED db

ResumeObservation(r) ==
    /\ runs[r].pc = "y_observation"
    /\ LET s == FeedBack(runs[r])
       IN  IF s.tc < Len(s.message.tool_calls)
           THEN Set(r, YieldAction(s, s.tc + 1)) /\ UNCHANGED db
           ELSE \E persist \in PersistOutcomes : SetBoth(r, Continue(s, db, persist))

ResumeInlineAction(r) ==
    /\ runs[r].pc = "y_inline_action"
    /\ Set(r, RunTool(runs[r], "y_inline_observation"))
    /\ UNCHANGED db

ResumeInlineObservation(r) ==
    /\ runs[r].pc = "y_inline_observation"
    /\ \E persist \in PersistOutcomes :
          SetBoth(r, Continue(FeedBackInline(runs[r]), db, persist))

\* After the final frame the try block ends: the finally block runs.
ResumeFinal(r) ==
    /\ runs[r].pc = "y_final"
    /\ Set(r, Finally(runs[r]))
    /\ UNCHANGED db

\* After the error frame the handler ends: the finally block runs.
ResumeError(r) ==
    /\ runs[r].pc = "y_error"
    /\ Set(r, Finally(runs[r]))
    /\ UNCHANGED db

\* After the last frame the generator is exhausted (StopAsyncIteration).
ResumeDone(r) ==
    /\ runs[r].pc = "y_done"
    /\ Set(r, [runs[r] EXCEPT !.pc = "finished"])
    /\ UNCHANGED db

Close(r) ==
    /\ runs[r].pc \in YieldPoints \cup {"start"}
    /\ Set(r, GeneratorExit(runs[r]))
    /\ UNCHANGED db

Init ==
    /\ runs = [r \in RunIds |-> NewRun]
    /\ db = <<>>
    /\ call = NoCall
    /\ wf = NoWorkflow

Next ==
    \E r \in DOMAIN runs :
        \/ Start(r)
        \/ ResumeNotFound(r)
        \/ ResumeNotFoundDone(r)
        \/ IssueQuery(r)
        \/ ModelResponds(r)
        \/ ModelRaises(r)
        \/ ResumeThought(r)
        \/ ResumeAction(r)
        \/ ResumeObservation(r)
        \/ ResumeInlineAction(r)
        \/ ResumeInlineObservation(r)
        \/ ResumeFinal(r)
        \/ ResumeError(r)
        \/ ResumeDone(r)
        \/ Close(r)

Spec == Init /\ [][Next]_vars

\* _execute_tool(tool_name, arguments_json, model_name) is called ...
InitTool ==
    /\ runs = [r \in RunIds |-> NewRun]
    /\ db = <<>>
    /\ call \in [pc : {"called"}, tool_name : ToolNamesAsked,
                  arguments_json : ArgumentTexts, env : {EnvOk, EnvFail, InLoop(EnvOk)},
                  returned : {<<>>}]
    /\ wf = NoWorkflow

\* ... and returns.
ExecuteTool ==
    /\ call.pc = "called"
    /\ call' = [call EXCEPT
                  !.pc = "returned",
                  !.returned = << _execute_tool(call.tool_name, call.arguments_json,
                                                DEFAULT_MODEL_NAME, call.env) >>]
    /\ UNCHANGED <<runs, db, wf>>

NextTool == ExecuteTool

SpecTool == InitTool /\ [][NextTool]_vars

InitGraph ==
    /\ runs = [r \in RunIds |-> NewRun]
    /\ db = <<>>
    /\ call = NoCall
    /\ wf \in {Submitted(graph) : graph \in Graphs(MaxEdges)}

\* execute_graph up to its loop: the node table, the incoming and outgoing
\* lists, and the nodes that are ready at the start.
Prepare ==
    /\ wf.pc = "submitted"
    /\ LET Ids == {NodeIds[i] : i \in 1..Len(NodeIds)}
           incoming == [nid \in Ids |-> Incoming(wf.edges, nid)]
           outgoing == [nid \in Ids |-> Outgoing(wf.edges, nid)]
       IN  wf' = [wf EXCEPT !.pc = "running", !.incoming = incoming,
                            !.outgoing = outgoing,
                            !.ready = InitialReady(wf.nodes, incoming)]
    /\ UNCHANGED <<runs, db, call>>

\* One turn of "while ready": the first ready node is taken, its parents'
\* results are merged, its behaviour is executed and awaited, the result is
\* recorded and the children whose parents have all completed are appended.
\* executed is the record of the behaviours started.
ExecuteNode ==
    /\ wf.pc = "running"
    /\ wf.ready # <<>>
    /\ LET nid == Head(wf.ready)
           found == SelectSeq(wf.nodes, LAMBDA n : n.id = nid)
       IN  IF found = <<>>
           THEN wf' = Propagate(wf, "KeyError", <<>>)
           ELSE /\ ~Invokes(found[1])
                /\ \E env \in {EnvOk, EnvFail} :
                     LET node == found[1]
                         input_payloads == InputPayloads(wf.results, wf.incoming, nid)
                         merged_input == _merge_inputs(input_payloads)
                         r == _execute_node(node.type, node.key, node.config,
                                            merged_input, env)
                         entry == [nid |-> nid, inputs |-> input_payloads,
                                   data |-> merged_input, ok |-> r.ok,
                                   result |-> r.value, capability |-> r.capability]
                     IN  IF ~r.ok
                         THEN wf' = Propagate(wf, r.exc, <<entry>>)
                         ELSE wf' = Complete(wf, nid, entry, r.value)
    /\ UNCHANGED <<runs, db, call>>

\* The loop written as "until every node has completed": it returns only then.
ReturnResults_WhenAllCompleted ==
    /\ wf.pc = "running"
    /\ wf.ready = <<>>
    /\ wf.completed = {wf.nodes[i].id : i \in 1..Len(wf.nodes)}
    /\ wf' = [wf EXCEPT !.pc = "returned", !.session = "closed"]
    /\ UNCHANGED <<runs, db, call>>

\* The ready list is empty: self.close(); return {"results": results}
ReturnResults ==
    /\ wf.pc = "running"
    /\ wf.ready = <<>>
    /\ wf' = [wf EXCEPT !.pc = "returned", !.session = "closed"]
    /\ UNCHANGED <<runs, db, call>>

NextGraph == Prepare \/ ExecuteNode \/ ReturnResults

SpecGraph == InitGraph /\ [][NextGraph]_vars

\* The event loop runs the coroutine of execute_graph until it has ended.
SpecGraphFair == SpecGraph /\ WF_vars(NextGraph)

\* ------------------------------------------- two runs of the loop at once

\* A model that is scripted from the start of a run: a structured call and an
\* inline call in turn, until it answers with a response that ends the loop.
ScriptedMock ==
    [i \in 1..MaxPattern |-> IF i % 2 = 1 THEN [content |-> "plain", n |-> 1]
                                         ELSE [content |-> "inline", n |-> 0]]

\* Two requests are served by one event loop: their generators are resumed in
\* any order, one resumption at a time.
TwoRunIds == {1, 2}

\* Most steps of a run that is one of two.
MaxStepsTwo == 2

InitTwo ==
    /\ runs = [r \in TwoRunIds |-> [NewRun EXCEPT !.mock = ScriptedMock]]
    /\ db = <<>>
    /\ call = NoCall
    /\ wf = NoWorkflow

\* The resumptions of a generator that is consumed to its end.
LoopStep(r) ==
    \/ ResumeNotFound(r)
    \/ ResumeNotFoundDone(r)
    \/ IssueQuery(r)
    \/ ModelResponds(r)
    \/ ModelRaises(r)
    \/ ResumeThought(r)
    \/ ResumeAction(r)
    \/ ResumeObservation(r)
    \/ ResumeInlineAction(r)
    \/ ResumeInlineObservation(r)
    \/ ResumeFinal(r)
    \/ ResumeError(r)
    \/ ResumeDone(r)

NextTwo ==
    \E r \in DOMAIN runs :
        /\ Start(r) \/ LoopStep(r)
        /\ runs'[r].step < MaxStepsTwo

SpecTwo == InitTwo /\ [][NextTwo]_vars

\* ------------------------------------- a workflow with agent nodes

\* The node kinds of the graphs that hold an agent node: agent nodes with the id
\* of the agent in the table, with a prompt prefix, with the id of no agent and
\* without an agent_id; a schedule source; a URL source; an output node.
AgentKinds ==
    { [type |-> "agent", key |-> "agent", config |-> Config("{\"agent_id\": 1}", <<>>, <<1>>, <<>>)],
      [type |-> "agent", key |-> "agent",
       config |-> Config("{\"agent_id\": 1, \"prompt_prefix\": \"Translate:\"}",
                         <<>>, <<1>>, <<"Translate:">>)],
      [type |-> "agent", key |-> "agent", config |-> Config("{\"agent_id\": 2}", <<>>, <<2>>, <<>>)],
      [type |-> "agent", key |-> "agent", config |-> Config("{}", <<>>, <<>>, <<>>)] }

ScheduleKind ==
    [type |-> "source", key |-> "schedule",
     config |-> Config("{\"cron\": \"0 9 * * *\"}", <<>>, <<>>, <<>>)]

UrlKind ==
    [type |-> "source", key |-> "url_input",
     config |-> Config("{\"url\": \"http://u\"}", <<"http://u">>, <<>>, <<>>)]

OutputKind == [type |-> "output", key |-> "result", config |-> Config("{}", <<>>, <<>>, <<>>)]

\* The tool nodes that send mail (with and without a recipient) and write a
\* report (with a file name that holds a directory).
ToolKinds ==
    { [type |-> "tool", key |-> "email_sender",
       config |-> [Config("{\"to\": \"a@x\"}", <<>>, <<>>, <<>>) EXCEPT !.to = <<"a@x">>]],
      [type |-> "tool", key |-> "email_sender", config |-> Config("{}", <<>>, <<>>, <<>>)],
      [type |-> "tool", key |-> "pdf_report",
       config |-> [Config("{\"filename\": \"../x.pdf\"}", <<>>, <<>>, <<>>)
                     EXCEPT !.filename = <<"..", "x.pdf">>]] }

\* The nodes no behaviour is written for: an output node in the middle of a
\* graph, with a configuration of its own; a type the executor does not know; a
\* source and a tool with a key their type has no behaviour for.
PassThroughKinds ==
    { [type |-> "output", key |-> "report",
       config |-> Config("{\"url\": \"http://u\", \"agent_id\": 1}", <<"http://u">>, <<1>>, <<>>)],
      [type |-> "transform", key |-> "web_scraper",
       config |-> Config("{\"url\": \"http://u\"}", <<"http://u">>, <<>>, <<>>)],
      [type |-> "source", key |-> "file_input", config |-> Config("{}", <<>>, <<>>, <<>>)],
      [type |-> "tool", key |-> "translator",
       config |-> Config("{\"agent_id\": 1}", <<>>, <<1>>, <<>>)] }

\* The graphs with an agent node: A is a source, B an agent node, a schedule
\* source, a mail or report tool or a node without a behaviour, C an output node; B stands alone, or is fed by A, or feeds C, or both.
AgentGraphs ==
    LET Node(id, kind) == [id |-> id, type |-> kind.type, key |-> kind.key,
                           config |-> kind.config]
        AB == [source |-> "A", target |-> "B"]
        BC == [source |-> "B", target |-> "C"]
    IN  { [nodes |-> <<Node("A", a), Node("B", b), Node("C", OutputKind)>>, edges |-> edges] :
          a \in {UrlKind, ScheduleKind},
          b \in AgentKinds \cup {ScheduleKind} \cup ToolKinds \cup PassThroughKinds,
          edges \in {<<>>, <<AB>>, <<BC>>, <<AB, BC>>} }

InitAgentGraph ==
    /\ runs = [r \in RunIds |-> [NewRun EXCEPT !.mock = ScriptedMock]]
    /\ db = <<>>
    /\ call = NoCall
    /\ wf \in {Submitted(graph) : graph \in AgentGraphs}

\* The first ready node is an agent node with an agent_id: its behaviour builds
\* the prompt and starts to consume stream_agent_task(agent_id, full_prompt).
\* The node stays at the head of ready until its behaviour has returned.
InvokeAgent ==
    /\ wf.pc = "running"
    /\ wf.ready # <<>>
    /\ LET nid == Head(wf.ready)
           found == SelectSeq(wf.nodes, LAMBDA n : n.id = nid)
       IN  /\ found # <<>>
           /\ Invokes(found[1])
           /\ \E r \in DOMAIN runs, fault \in {"none", "get", "setup"} :
                 LET node == found[1]
                     data == _merge_inputs(InputPayloads(wf.results, wf.incoming, nid))
                 IN  /\ runs[r].pc = "start"
                     /\ runs' = [runs EXCEPT ![r] =
                                   BeginWith(runs[r], node.config.agent_id[1],
                                             full_prompt(node.config, data), <<>>, fault)]
    /\ wf' = [wf EXCEPT !.pc = "in_agent"]
    /\ UNCHANGED <<db, call>>

\* "async for frame in stream_agent_task(...)": the behaviour of the agent node
\* resumes the generator until it is exhausted; it never closes it early.
AgentStep ==
    /\ wf.pc = "in_agent"
    /\ \E r \in DOMAIN runs :
          \/ ResumeNotFound(r)
          \/ ResumeNotFoundDone(r)
          \/ IssueQuery(r)
          \/ ModelResponds(r)
          \/ ModelRaises(r)
          \/ ResumeThought(r)
          \/ ResumeAction(r)
          \/ ResumeObservation(r)
          \/ ResumeInlineAction(r)
          \/ ResumeInlineObservation(r)
          \/ ResumeFinal(r)
          \/ ResumeError(r)
          \/ ResumeDone(r)

\* The stream is exhausted: the behaviour returns final_output, and the turn of
\* "while ready" ends as for any other node.
AgentReturns ==
    /\ wf.pc = "in_agent"
    /\ \E r \in DOMAIN runs :
          LET nid == Head(wf.ready)
              node == SelectSeq(wf.nodes, LAMBDA n : n.id = nid)[1]
              input_payloads == InputPayloads(wf.results, wf.incoming, nid)
              merged_input == _merge_inputs(input_payloads)
              res == _execute_node(node.type, node.key, node.config, merged_input,
                                   [frames |-> runs[r].events])
              entry == [nid |-> nid, inputs |-> input_payloads, data |-> merged_input,
                        ok |-> res.ok, result |-> res.value,
                        capability |-> res.capability]
          IN  /\ runs[r].pc = "finished"
              /\ wf' = [Complete(wf, nid, entry, res.value) EXCEPT
                          !.pc = "running",
                          !.invoked = Append(@, [nid |-> nid, run |-> runs[r]])]
              /\ runs' = [runs EXCEPT ![r] = [NewRun EXCEPT !.mock = runs[r].mock]]
    /\ UNCHANGED <<db, call>>

NextAgentGraph ==
    Prepare \/ ExecuteNode \/ InvokeAgent \/ AgentStep \/ AgentReturns \/ ReturnResults

SpecAgentGraph == InitAgentGraph /\ [][NextAgentGraph]_vars

\* ------------------------------------------------------ reading a stream

RECURSIVE Count(_, _)
\* the number of frames of a kind in a stream
Count(events, kind) ==
    IF events = <<>> THEN 0
    ELSE (IF Head(events).event = kind THEN 1 ELSE 0) + Count(Tail(events), kind)

\* the frames of a kind, in order
Frames(events, kind) == SelectSeq(events, LAMBDA e : e.event = kind)

\* The run consumed its stream to the end.
Finished(s) == s.pc = "finished"

\* The run is past its loop: the final or error frame has been yielded.
PostLoop == {"y_final", "y_error", "y_done", "finished"}

\* Most frames a stream can hold, and most steps a run can take.
MaxEvents == MAX_REACT_STEPS * (2 + 2 * MaxCalls) + 3

Measure(s) ==
    Len(s.events) + s.queries + (IF s.pc \in {"finished", "closed"} THEN 1 ELSE 0)

\* ------------------------------------------------------------------ properties

\* C1 as stated: every finished run holds exactly one 'final' and exactly one
\* 'done' frame, the 'final' frame immediately followed by the 'done' frame as
\* the last two frames of the stream.
C1_AsClaimed ==
    \A r \in DOMAIN runs :
        LET s == runs[r]
            n == Len(s.events)
        IN  Finished(s) =>
              /\ Count(s.events, "final") = 1
              /\ Count(s.events, "done") = 1
              /\ n >= 2
              /\ s.events[n - 1].event = "final"
              /\ s.events[n].event = "done"

C1_Ending ==
    \A r \in DOMAIN runs :
        LET s == runs[r]
            n == Len(s.events)
        IN  /\ s.queries <= MAX_REACT_STEPS
            /\ Measure(s) <= MaxEvents + MAX_REACT_STEPS + 1
            /\ (Finished(s) /\ s.agent # <<>> /\ ~s.raised) =>
                  /\ Count(s.events, "final") = 1
                  /\ Count(s.events, "done") = 1
                  /\ n >= 2
                  /\ s.events[n - 1].event = "final"
                  /\ s.events[n].event = "done"

C1_Progress ==
    \A r \in DOMAIN runs : runs'[r] # runs[r] => Measure(runs'[r]) > Measure(runs[r])

\* C1, amended: every run that finds its agent and in which no operation
\* raises, whatever number of steps up to MAX_REACT_STEPS it takes, terminates
\* (every step of a run emits a frame, issues a model query or ends the run, and
\* their number is bounded), and when it has finished its stream holds exactly
\* one 'final' and exactly one 'done' frame, the 'final' frame immediately
\* followed by the 'done' frame as the last two frames.
C1_FinalThenDone == [](C1_Ending) /\ [][C1_Progress]_vars

\* C1 witness: a run that used all MAX_REACT_STEPS steps, raised nothing and
\* finished with its final frame.
C1_Witness ==
    \E r \in DOMAIN runs :
        /\ Finished(runs[r]) /\ ~runs[r].raised
        /\ runs[r].queries = MAX_REACT_STEPS
        /\ Count(runs[r].events, "final") = 1

\* C2: on every exit path of a finished run exactly one 'done' frame carrying
\* '[DONE]' is emitted, and it is the last frame of the stream.
C2_OneDoneLast ==
    \A r \in DOMAIN runs :
        LET s == runs[r]
            n == Len(s.events)
        IN  Finished(s) =>
              /\ Count(s.events, "done") = 1
              /\ n >= 1
              /\ s.events[n] = [event |-> "done", data |-> <<"[DONE]">>]

\* C3: when an operation inside the try block raises, the stream holds exactly
\* one 'error' frame and no 'final' frame, the exception does not leave the
\* generator, and the finished stream ends with the 'error' frame immediately
\* followed by the 'done' frame.
C3_ErrorThenDone ==
    \A r \in DOMAIN runs :
        LET s == runs[r]
            n == Len(s.events)
        IN  (s.raised /\ s.pc \in PostLoop) =>
              /\ Count(s.events, "error") = 1
              /\ Count(s.events, "final") = 0
              /\ s.escaped = ""
              /\ Finished(s) =>
                    /\ n >= 2
                    /\ s.events[n - 1].event = "error"
                    /\ s.events[n].event = "done"
                    /\ Count(s.events, "done") = 1

\* C3 witness: a finished run whose commit raised after tools had been invoked.
C3_Witness ==
    \E r \in DOMAIN runs :
        /\ Finished(runs[r]) /\ runs[r].raised
        /\ runs[r].exit # "none"
        /\ runs[r].invocations # <<>>
        /\ Count(runs[r].events, "error") = 1

\* The structured calls of the latest response that have been carried out in
\* full (k: action and observation frames emitted, tool invoked) and fed back
\* (m: messages appended), by suspension point.
PairsEmitted(s) ==
    CASE s.pc = "y_thought" -> 0
      [] s.pc = "y_action" -> s.tc - 1
      [] s.pc = "y_observation" -> s.tc
      [] OTHER -> s.turn.n

CallsFedBack(s) ==
    CASE s.pc = "y_thought" -> 0
      [] s.pc = "y_action" -> s.tc - 1
      [] s.pc = "y_observation" -> s.tc - 1
      [] OTHER -> s.turn.n

InTurn == {"y_thought", "y_action", "y_observation"}

\* C4: for a model response with N >= 1 structured tool calls the run emits, in
\* call order, one action frame and one observation frame per call, invoking the
\* named tool once per call, and appends one assistant message and one tool
\* message per call; while it does so no model query is issued, and when the next
\* query is issued (or the loop has ended) exactly N pairs have been emitted and
\* the context has grown by exactly 2N messages.
C4_ToolCallsDrained ==
    \A r \in DOMAIN runs :
        LET s == runs[r]
            t == s.turn
            calls == s.message.tool_calls
            k == PairsEmitted(s)
            m == CallsFedBack(s)
            since == SubSeq(s.events, t.events + 1, Len(s.events))
        IN  (t.n >= 1 /\ s.pc # "closed") =>
              /\ Len(calls) = t.n
              /\ Len(s.invocations) = t.invocations + k
              /\ Len(s.messages) = t.messages + 2 * m
              /\ Len(s.events) >= t.events + 2 * k
              /\ \A i \in 1..k :
                    LET a == s.events[t.events + 2 * i - 1]
                        o == s.events[t.events + 2 * i]
                        inv == s.invocations[t.invocations + i]
                    IN  /\ a.event = "action"
                        /\ a.data[2] = calls[i].function.name
                        /\ o.event = "observation"
                        /\ o.data = EscapeNewlines(<<"[OBSERVATION] ">> \o inv.observation)
                        /\ inv.name = calls[i].function.name
              /\ \A i \in 1..m :
                    /\ s.messages[t.messages + 2 * i - 1].role = "assistant"
                    /\ s.messages[t.messages + 2 * i - 1].tool_calls[1].id = calls[i].id
                    /\ s.messages[t.messages + 2 * i].role = "tool"
                    /\ s.messages[t.messages + 2 * i].tool_call_id = calls[i].id
              /\ s.pc \in InTurn =>
                    /\ s.queries = t.queries
                    /\ Len(s.events) = t.events + 2 * k + (IF s.pc = "y_action" THEN 1 ELSE 0)
              /\ s.pc \notin InTurn =>
                    /\ Count(since, "action") = t.n
                    /\ Count(since, "observation") = t.n
                    /\ s.queries \in {t.queries, t.queries + 1}
                    /\ s.queries = t.queries + 1 => (s.pc = "await_model" \/ s.raised)

\* C4 witness: the next query has just been issued after a response with two or
\* more structured calls, all of them carried out and fed back.
C4_Witness ==
    \E r \in DOMAIN runs :
        LET s == runs[r]
        IN  /\ s.turn.n >= 2
            /\ s.pc = "await_model"
            /\ s.queries = s.turn.queries + 1
            /\ Len(s.messages) = s.turn.messages + 2 * s.turn.n
            /\ Len(s.invocations) = s.turn.invocations + s.turn.n

\* A response carries a recognised tool call: structured, or inline in its text.
HasToolCall(message) ==
    message.tool_calls # <<>> \/ _parse_inline_tool_call(message.content).ok

\* Every one of the MAX_REACT_STEPS responses of the run carried a tool call and
\* the run is past its loop.
Exhausted(s) ==
    /\ Len(s.responses) = MAX_REACT_STEPS
    /\ \A i \in 1..MAX_REACT_STEPS : HasToolCall(s.responses[i])
    /\ s.pc \in PostLoop

\* C5: a run never issues more than MAX_REACT_STEPS model queries; when each of
\* its first MAX_REACT_STEPS responses carried a recognised tool call the loop has
\* ended by exhausting its range with the placeholder as final answer, and,
\* unless persisting the record itself raised, without an 'error' frame: the
\* TaskLog row holds the transcript so far and the 'final' frame carries the
\* placeholder text.
C5_StepBudget ==
    \A r \in DOMAIN runs :
        LET s == runs[r]
            finals == Frames(s.events, "final")
        IN  /\ s.queries <= MAX_REACT_STEPS
            /\ Len(s.responses) <= MAX_REACT_STEPS
            /\ Exhausted(s) =>
                  /\ s.exit = "exhausted"
                  /\ s.final_answer = NoFinalText
                  /\ ~s.raised =>
                        /\ Count(s.events, "error") = 0
                        /\ Len(finals) = 1
                        /\ JsonLoadsPayload(finals[1].data).ok
                        /\ JsonLoadsPayload(finals[1].data).final_output = NoFinalText
                        /\ \E i \in s.created :
                              /\ db[i].final_output = NoFinalText
                              /\ db[i].thought_process = Join(s.thought_log, <<NL>>)
                              /\ db[i].id = JsonLoadsPayload(finals[1].data).task_log_id

\* C5 witness: a finished run whose MAX_REACT_STEPS responses all carried tool
\* calls and whose record was persisted.
C5_Witness ==
    \E r \in DOMAIN runs :
        /\ Exhausted(runs[r]) /\ Finished(runs[r]) /\ ~runs[r].raised
        /\ runs[r].queries = MAX_REACT_STEPS
        /\ runs[r].created # {}

\* C6 as stated: every finished run, successful or failed, has created exactly
\* one TaskLog row.
C6_AsClaimed ==
    \A r \in DOMAIN runs :
        Finished(runs[r]) => Cardinality(runs[r].created) = 1

C6_Created ==
    /\ \A i \in 1..Len(db) : db[i].id = i /\ \E r \in DOMAIN runs : i \in runs[r].created
    /\ \A r \in DOMAIN runs :
          LET s == runs[r]
          IN  /\ Cardinality(s.created) <= 1
              /\ s.created \subseteq 1..Len(db)
              /\ s.exit = "none" => s.created = {}
              /\ (s.exit # "none" /\ ~s.raised) => Cardinality(s.created) = 1
              /\ Count(s.events, "final") >= 1 => Cardinality(s.created) = 1

C6_Immutable ==
    /\ Len(db') >= Len(db)
    /\ \A i \in 1..Len(db) : db'[i] = db[i]
    /\ \A r \in DOMAIN runs :
          runs[r].created # {} => runs'[r].created = runs[r].created

\* C6, amended: every run creates at most one TaskLog row, and only when its
\* loop has ended (final answer, empty response or exhausted range): exactly one
\* when no operation raised, and always one before a 'final' frame; a run that
\* ends with agent-not-found or with an exception raised before the loop ended
\* creates none; no step of any run changes or removes a row once it is created.
C6_OneRecordAtLoopEnd == [](C6_Created) /\ [][C6_Immutable]_vars

\* C6 witness: a finished run that created its one row, and a row in the table.
C6_Witness ==
    \E r \in DOMAIN runs :
        /\ Finished(runs[r]) /\ Cardinality(runs[r].created) = 1
        /\ Len(db) = 1
        /\ runs[r].invocations # <<>>

\* the texts of the thought, action and observation frames of a stream, in order
EmittedTexts(events) ==
    LET kept == SelectSeq(events,
                          LAMBDA e : e.event \in {"thought", "action", "observation"})
    IN  [i \in 1..Len(kept) |-> UnescapeNewlines(kept[i].data)]

\* C7 as stated: the persisted transcript is the in-order concatenation of the
\* texts of the emitted thought, action and observation frames.
C7_AsClaimed ==
    \A r \in DOMAIN runs :
        \A i \in runs[r].created :
            db[i].thought_process = Join(EmittedTexts(runs[r].events), <<NL>>)

RECURSIVE EntriesOfFrames(_, _)
\* The transcript entries that a stream stands for: a progress frame
\* "[Step k] ..." sets the step label (k - 1) and gives no entry; every other
\* thought, action and observation frame gives one labelled entry.
EntriesOfFrames(events, cur) ==
    IF events = <<>> THEN <<>>
    ELSE LET e == Head(events)
             text == UnescapeNewlines(e.data)
             rest == Tail(events)
         IN  IF e.event = "thought" /\ text[1] = "[Step "
             THEN EntriesOfFrames(rest, IntOf(text[2]) - 1)
             ELSE IF e.event = "thought"
             THEN << <<"THOUGHT (step ", Str(cur), "): ">> \o text >>
                  \o EntriesOfFrames(rest, cur)
             ELSE IF e.event = "action"
             THEN << <<"ACTION (step ", Str(cur), "): ", text[2], " | ", text[5]>> >>
                  \o EntriesOfFrames(rest, cur)
             ELSE IF e.event = "observation"
             THEN << <<"OBSERVATION (step ", Str(cur), "): ">> \o Tail(text) >>
                  \o EntriesOfFrames(rest, cur)
             ELSE EntriesOfFrames(rest, cur)

\* The calls a response makes the loop carry out: name and argument text.
CallsOf(message) ==
    IF message.tool_calls # <<>>
    THEN [i \in 1..Len(message.tool_calls) |->
            [name |-> message.tool_calls[i].function.name,
             arguments |-> IF message.tool_calls[i].function.arguments = "" THEN "{}"
                           ELSE message.tool_calls[i].function.arguments]]
    ELSE LET parsed == _parse_inline_tool_call(message.content)
         IN  IF parsed.ok THEN << [name |-> parsed.name, arguments |-> parsed.arguments] >>
             ELSE <<>>

RECURSIVE EntriesOfScript(_, _, _, _)
\* The transcript entries determined by the mocked responses alone: step is the
\* label of the first response, k the number of tool invocations before it.
EntriesOfScript(responses, step, k, model_name) ==
    IF responses = <<>> THEN <<>>
    ELSE LET message == Head(responses)
             calls == CallsOf(message)
             thought == IF message.content # <<>>
                        THEN << <<"THOUGHT (step ", Str(step), "): ">> \o message.content >>
                        ELSE <<>>
             acted == [j \in 1..(2 * Len(calls)) |->
                         LET c == calls[(j + 1) \div 2]
                         IN  IF j % 2 = 1
                             THEN <<"ACTION (step ", Str(step), "): ", c.name, " | ",
                                    c.arguments>>
                             ELSE <<"OBSERVATION (step ", Str(step), "): ">>
                                  \o _execute_tool(c.name, c.arguments, model_name,
                                                   InLoop(EnvAt(k + (j \div 2)))).observation]
         IN  thought \o acted
             \o EntriesOfScript(Tail(responses), step + 1, k + Len(calls), model_name)

\* the entries of the prompt: "USER: ..." and, with an image, "USER IMAGE: ..."
EntriesOfPrompt(s) ==
    << <<"USER: ">> \o s.user_prompt >>
    \o (IF s.image_path # <<>> THEN << <<"USER IMAGE: ">> \o s.image_path >> ELSE <<>>)

\* C7, amended: the persisted transcript is determined by the prompt and the
\* mocked model and tool responses alone, and it is, joined by newlines: the
\* entry "USER: <prompt>" (and "USER IMAGE: <path>" when an image is given),
\* which is not emitted, followed in emission order by one step-labelled entry
\* for every emitted thought frame that carries model text, every action frame
\* (tool name and arguments) and every observation frame (observation text);
\* the "[Step k] Querying model" progress frames are emitted but have no entry.
C7_TranscriptOfFrames ==
    \A r \in DOMAIN runs :
        LET s == runs[r]
        IN  \A i \in s.created :
                /\ db[i].thought_process
                     = Join(EntriesOfPrompt(s) \o EntriesOfFrames(s.events, 0), <<NL>>)
                /\ db[i].thought_process
                     = Join(EntriesOfPrompt(s)
                            \o EntriesOfScript(s.responses, 0, 0, s.model_name), <<NL>>)
                /\ db[i].input_query = s.user_prompt

\* C7 witness: a persisted transcript of a run with an image, model text, a
\* structured call and an inline call.
C7_Witness ==
    \E r \in DOMAIN runs :
        LET s == runs[r]
        IN  /\ s.created # {}
            /\ s.image_path # <<>>
            /\ Count(s.events, "action") >= 2
            /\ \E i \in 1..Len(s.responses) : s.responses[i].tool_calls # <<>>
            /\ \E i \in 1..Len(s.responses) :
                  s.responses[i].tool_calls = <<>> /\ HasToolCall(s.responses[i])
            /\ \E i \in 1..Len(s.events) :
                  s.events[i].event = "thought" /\ s.events[i].data[1] # "[Step "

RECURSIVE MostRecentArtifact(_)
\* the artifact of the latest tool invocation that returned one; None (the
\* empty path) when none did
MostRecentArtifact(invocations) ==
    IF invocations = <<>> THEN <<>>
    ELSE LET last == invocations[Len(invocations)]
         IN  IF last.artifact # <<>> THEN last.artifact
             ELSE MostRecentArtifact(SubSeq(invocations, 1, Len(invocations) - 1))

\* C8: the artifact_path of the 'final' frame is the artifact returned by the
\* most recent tool invocation of the run that returned one, and null exactly
\* when no invocation returned one; a later invocation without an artifact
\* (a failed one included) neither clears nor replaces it.
C8_ArtifactOfFinal ==
    \A r \in DOMAIN runs :
        LET s == runs[r]
        IN  \A i \in 1..Len(s.events) :
                s.events[i].event = "final" =>
                    LET payload == JsonLoadsPayload(s.events[i].data)
                    IN  /\ payload.ok
                        /\ payload.artifact_path = MostRecentArtifact(s.invocations)
                        /\ payload.artifact_path = <<>>
                             <=> \A j \in 1..Len(s.invocations) :
                                     s.invocations[j].artifact = <<>>

\* C8 witness: a final frame carrying the second of two different artifacts,
\* after a later invocation that failed and returned none.
C8_Witness ==
    \E r \in DOMAIN runs :
        LET s == runs[r]
            n == Len(s.invocations)
        IN  /\ Count(s.events, "final") = 1
            /\ n >= 3
            /\ s.invocations[n].artifact = <<>>
            /\ s.invocations[n].observation[1] = "ERROR while executing '"
            /\ \E i, j \in 1..n :
                  /\ i < j
                  /\ s.invocations[i].artifact # <<>>
                  /\ s.invocations[j].artifact # <<>>
                  /\ s.invocations[i].artifact # s.invocations[j].artifact
                  /\ \A k \in (j + 1)..n : s.invocations[k].artifact = <<>>
                  /\ JsonLoadsPayload(Frames(s.events, "final")[1].data).artifact_path
                       = s.invocations[j].artifact

\* C9: whenever a 'final' frame is in the stream, the TaskLog row of the run is
\* in the table, created by this run, and the task_log_id, agent_id and
\* final_output read from the frame are the id, agent id and final_output of
\* that row.
C9_FinalAfterCommit ==
    \A r \in DOMAIN runs :
        LET s == runs[r]
        IN  \A i \in 1..Len(s.events) :
                s.events[i].event = "final" =>
                    LET payload == JsonLoadsPayload(s.events[i].data)
                        id == payload.task_log_id
                    IN  /\ payload.ok
                        /\ id \in s.created
                        /\ id \in 1..Len(db)
                        /\ db[id].id = id
                        /\ db[id].agent_id = payload.agent_id
                        /\ db[id].final_output = payload.final_output
                        /\ payload.agent_id = s.agent_id

\* C9 witness: a final frame whose answer spans two lines, with its row.
C9_Witness ==
    \E r \in DOMAIN runs :
        LET s == runs[r]
        IN  /\ s.pc = "y_final"
            /\ s.final_answer = MultiLineText
            /\ \E i \in s.created : db[i].final_output = MultiLineText

\* C10: a run that has ended (its stream consumed, or closed or abandoned by
\* the consumer at a yield) or that is suspended at its last frame holds no open
\* session, on every exit path.
C10_SessionClosed ==
    \A r \in DOMAIN runs :
        runs[r].pc \in {"y_done", "finished", "closed"} => runs[r].session # "open"

\* C10 witness: a run closed by its consumer in the middle of the loop, after a
\* tool invocation, with its session closed.
C10_Witness ==
    \E r \in DOMAIN runs :
        /\ runs[r].pc = "closed"
        /\ runs[r].session = "closed"
        /\ runs[r].invocations # <<>>
        /\ Count(runs[r].events, "done") = 0

\* ------------------------------------------------ the synchronous wrapper

RECURSIVE _collect(_, _, _)
\* The loop of run_agent_task._collect over the frames of the stream: result is
\* the dict built so far, thought_lines the list built so far.
_collect(events, result, thought_lines) ==
    IF events = <<>>
    THEN [result EXCEPT !.thought_process = Join(thought_lines, <<NL>>)]
    ELSE LET event == Head(events).event
             data == FrameData(Head(events))
             payload == JsonLoadsPayload(data)
         IN  IF event \in {"thought", "action", "observation"}
             THEN _collect(Tail(events), result, Append(thought_lines, data))
             ELSE IF event = "final"
             THEN _collect(Tail(events),
                           IF payload.ok
                           THEN [result EXCEPT
                                   !.task_log_id = payload.task_log_id,
                                   !.agent_id = payload.agent_id,
                                   !.final_output = payload.final_output,
                                   !.artifact_path = payload.artifact_path]
                           ELSE [result EXCEPT !.final_output = data],
                           thought_lines)
             ELSE _collect(Tail(events), result, thought_lines)

\* run_agent_task: what the wrapper returns for a stream it consumed to the end.
run_agent_task(agent_id, events) ==
    _collect(events,
             [task_log_id |-> -1, agent_id |-> agent_id, final_output |-> <<>>,
              artifact_path |-> <<>>, thought_process |-> <<>>],
             <<>>)

\* C11 as stated: for every consumed stream that holds a 'final' frame,
\* run_agent_task returns the task_log_id, agent_id, final_output and
\* artifact_path that the run put into the payload of that frame, whatever the
\* final answer (one line or several), and thought_process is the texts of the
\* thought, action and observation frames joined in emission order.
C11_ReturnsFinalPayload ==
    \A r \in DOMAIN runs :
        LET s == runs[r]
            result == run_agent_task(s.agent_id, s.events)
        IN  (Finished(s) /\ Count(s.events, "final") = 1) =>
              /\ result.task_log_id = s.log[1].id
              /\ result.agent_id = s.agent[1].id
              /\ result.final_output = s.final_answer
              /\ result.artifact_path = s.last_artifact_path
              /\ result.thought_process = Join(EmittedTexts(s.events), <<NL>>)

\* ------------------------------------------------------- tool invocation

\* The capabilities _execute_tool can call, by the name it dispatches on.
Capabilities == {"generate_pdf_report", "analyze_image", "web_scraper_tool", "send_email"}

\* The fields the schema of a capability requires.
RequiredOf(name) ==
    CASE name = "generate_pdf_report" -> PdfRequired
      [] name = "analyze_image" -> VisionRequired
      [] name = "web_scraper_tool" -> ScraperRequired
      [] name = "send_email" -> MailRequired
      [] OTHER -> {}

\* The alias table as the specification gives it.
ResolvedName(tool_name) ==
    IF tool_name \in {"pdf_report_tool", "pdf_tool"} THEN "generate_pdf_report"
    ELSE IF tool_name \in {"scraper_tool", "web_scraper"} THEN "web_scraper_tool"
    ELSE tool_name

\* The argument text is JSON and an object.
WellFormed(arguments_json) ==
    JsonLoadsArgs(arguments_json).ok /\ JsonLoadsArgs(arguments_json).isobj

\* The argument text is not JSON, is JSON but not an object, or is an object
\* without a field the schema of the named tool requires.
Malformed(tool_name, arguments_json) ==
    \/ ~WellFormed(arguments_json)
    \/ \E f \in RequiredOf(ResolvedName(tool_name)) :
          f \notin DOMAIN JsonLoadsArgs(arguments_json).value

\* The first tokens of the observations that begin with "ERROR:".
ErrorColon ==
    {"ERROR: tool arguments could not be parsed as JSON.",
     "ERROR: image_path is required.",
     "ERROR: 'url' is required for web scraping.",
     "ERROR: 'to' (recipient list) is required.",
     "ERROR: unknown tool '"}

\* C12 as stated: for every tool name and every malformed argument text
\* _execute_tool returns (it never raises) an observation that begins with
\* "ERROR:" together with a null artifact path.
C12_MalformedIsError ==
    (call.pc = "returned" /\ Malformed(call.tool_name, call.arguments_json)) =>
        /\ call.returned[1].observation[1] \in ErrorColon
        /\ call.returned[1].artifact = <<>>

\* C13: the name is first mapped through the alias table (pdf_report_tool and
\* pdf_tool to document generation, scraper_tool and web_scraper to web
\* extraction) and is otherwise taken literally.  With well-formed arguments, a
\* name that resolves to a capability never gives the unknown-tool observation,
\* and calls no capability other than that one; a name that resolves to none
\* calls no capability and returns "ERROR: unknown tool '<name>'." with a null
\* artifact, the same pair for every well-formed argument text and whatever the
\* capabilities would have done.
C13_AliasThenLiteral ==
    (call.pc = "returned" /\ WellFormed(call.arguments_json)) =>
        LET got == call.returned[1]
            name == ResolvedName(call.tool_name)
            unknown == [observation |-> <<"ERROR: unknown tool '", call.tool_name, "'.">>,
                        artifact |-> <<>>, capability |-> ""]
        IN  IF name \in Capabilities
            THEN /\ got.observation[1] # "ERROR: unknown tool '"
                 /\ got.capability \in
                      {"", CASE name = "generate_pdf_report" -> "generate_report"
                             [] name = "analyze_image" -> "analyze_image"
                             [] name = "web_scraper_tool" -> "scrape_url"
                             [] OTHER -> "send_email"}
                 /\ (name = "generate_pdf_report" => got.capability = "generate_report")
                 /\ (~Malformed(call.tool_name, call.arguments_json) =>
                        got.capability # "")
            ELSE /\ got = unknown
                 /\ \A a \in ArgumentTexts, e \in {EnvOk, EnvFail} :
                       WellFormed(a) =>
                          _execute_tool(call.tool_name, a, DEFAULT_MODEL_NAME, e) = unknown

\* C13 witness: an alias reached its capability.
C13_Witness ==
    /\ call.pc = "returned"
    /\ call.tool_name = "web_scraper"
    /\ call.arguments_json = ArgsUrl
    /\ call.returned[1].capability = "scrape_url"
    /\ call.returned[1].observation[1] = "Scraped content from "

\* The directory the reports are written to, as an absolute path.
ReportsDirectory == abspath(REPORTS_DIR)

\* C14 as stated: for every filename given to the document-generation tool
\* (absolute, relative with directory components, or with ".." components) the
\* file is written under the reports directory using only the base name of the
\* filename.
C14_BaseNameUnderReports ==
    (/\ call.pc = "returned"
     /\ WellFormed(call.arguments_json)
     /\ "filename" \in DOMAIN JsonLoadsArgs(call.arguments_json).value
     /\ call.returned[1].capability = "generate_report"
     /\ call.env.ok) =>
        LET filename == JsonLoadsArgs(call.arguments_json).value.filename
            written == call.returned[1].artifact
        IN  /\ Len(written) > Len(ReportsDirectory)
            /\ SubSeq(written, 1, Len(ReportsDirectory)) = ReportsDirectory
            /\ written = ReportsDirectory \o basename(filename)

\* ------------------------------------------------------ workflow scheduling

\* The ids of the nodes of the submitted graph.
GraphNodes == {wf.nodes[i].id : i \in 1..Len(wf.nodes)}

\* The positions of the edges into a node, and the nodes with an edge into it.
EdgesInto(nid) == {k \in 1..Len(wf.edges) : wf.edges[k].target = nid}

ParentsOf(nid) == {wf.edges[k].source : k \in EdgesInto(nid)}

\* The positions in the record of the behaviours started at which nid started.
StartsOf(nid) == {i \in 1..Len(wf.executed) : wf.executed[i].nid = nid}

\* execute_graph has ended: it returned the results or it raised.
Terminated == wf.pc \in {"returned", "raised"}

\* C15: a node's behaviour starts only after every node with an edge into it
\* has completed and has a recorded result; in no reachable state has a node
\* been started while one of its parents has not completed.
C15_ParentsFirst ==
    \A i \in 1..Len(wf.executed) :
        \A p \in ParentsOf(wf.executed[i].nid) :
            /\ p \in wf.completed
            /\ p \in DOMAIN wf.results
            /\ \E j \in 1..(i - 1) : wf.executed[j].nid = p /\ wf.executed[j].ok

\* C15 witness: a node with two parents was executed, after a parent that
\* itself had to wait for the other one.
C15_Witness ==
    /\ wf.pc = "returned"
    /\ Len(wf.executed) = 3
    /\ Cardinality(ParentsOf(wf.executed[3].nid)) = 2
    /\ ParentsOf(wf.executed[2].nid) = {wf.executed[1].nid}

\* The chain A -> B -> C: A a source, B a tool, C an output.
IsChain ==
    /\ Len(wf.nodes) = 3
    /\ wf.nodes[1].type = "source" /\ wf.nodes[1].key = "url_input"
    /\ wf.nodes[2].type = "tool"
    /\ wf.nodes[3].type = "output"
    /\ Len(wf.edges) = 2
    /\ {wf.edges[1], wf.edges[2]} = {[source |-> "A", target |-> "B"],
                                     [source |-> "B", target |-> "C"]}

\* C16: for the chain A -> B -> C a run that returns has results for A, B and
\* C, B was executed with A's output as input and C with B's output; and every
\* node with exactly one incoming edge is executed with the recorded output of
\* its parent, unchanged, as its input.
C16_SingleParentInput ==
    /\ \A i \in 1..Len(wf.executed) :
          Cardinality(EdgesInto(wf.executed[i].nid)) = 1 =>
              \E j \in 1..(i - 1) :
                  /\ ParentsOf(wf.executed[i].nid) = {wf.executed[j].nid}
                  /\ \A k \in (j + 1)..(i - 1) : wf.executed[k].nid # wf.executed[j].nid
                  /\ wf.executed[j].ok
                  /\ wf.executed[i].data = wf.executed[j].result
    /\ (IsChain /\ wf.pc = "returned") =>
          /\ DOMAIN wf.results = {"A", "B", "C"}
          /\ [i \in 1..Len(wf.executed) |-> wf.executed[i].nid] = <<"A", "B", "C">>
          /\ wf.executed[2].data = wf.results["A"]
          /\ wf.executed[3].data = wf.results["B"]
          /\ wf.results["A"] = Text(<<"http://u">>)
    /\ (IsChain /\ wf.pc = "raised") =>
          /\ wf.executed[Len(wf.executed)].nid = "B"
          /\ wf.executed[Len(wf.executed)].data = Text(<<"http://u">>)

\* C16 witness: the chain has returned, C holding the text B extracted.
C16_Witness ==
    /\ IsChain
    /\ wf.pc = "returned"
    /\ wf.results["C"] = Text(EnvOk.text)
    /\ wf.results["B"] = wf.results["C"]

RECURSIVE BlankLineJoined(_)
\* the texts of a non-empty list of text values with a blank line between them
BlankLineJoined(inputs) ==
    IF Len(inputs) = 1 THEN inputs[1].v
    ELSE inputs[1].v \o <<NL, NL>> \o BlankLineJoined(Tail(inputs))

\* C17: the merged input of a node is: null for no parent output; the single
\* parent output, unchanged, for one; the parent outputs joined by a blank line
\* in list order for two or more that are all text; and the list itself,
\* unchanged, for two or more of which one is not text.
C17_MergePolicy ==
    \A i \in 1..Len(wf.executed) :
        LET inputs == wf.executed[i].inputs
            merged == wf.executed[i].data
        IN  /\ Len(inputs) = 0 => merged = Null
            /\ Len(inputs) = 1 => merged = inputs[1]
            /\ (Len(inputs) >= 2 /\ \A k \in 1..Len(inputs) : inputs[k].t = "text") =>
                  merged = [t |-> "text", v |-> BlankLineJoined(inputs), items |-> <<>>]
            /\ (Len(inputs) >= 2 /\ \E k \in 1..Len(inputs) : inputs[k].t # "text") =>
                  merged = [t |-> "list", v |-> <<>>, items |-> inputs]

\* C17 witness: two different parent texts were joined, in edge order.
C17_Witness ==
    \E i \in 1..Len(wf.executed) :
        /\ Len(wf.executed[i].inputs) = 2
        /\ wf.executed[i].inputs[1] = Text(<<"http://u">>)
        /\ wf.executed[i].inputs[2] = Text(EnvOk.text)
        /\ wf.executed[i].data.v = <<"http://u", NL, NL>> \o EnvOk.text

\* The nodes without an incoming and without an outgoing edge.
Isolated ==
    {n \in GraphNodes :
        \A k \in 1..Len(wf.edges) : wf.edges[k].source # n /\ wf.edges[k].target # n}

\* C18 as stated: when execute_graph has ended, every node without incoming and
\* outgoing edges has been executed exactly once, with null input, and has its
\* entry in the results, whatever else the graph contains.
C18_IsolatedAlwaysRuns ==
    Terminated =>
        \A n \in Isolated :
            /\ Cardinality(StartsOf(n)) = 1
            /\ \A i \in StartsOf(n) : wf.executed[i].data = Null /\ wf.executed[i].ok
            /\ n \in DOMAIN wf.results

\* C18, amended: a node without incoming and outgoing edges is never started
\* twice and is started with null input; when execute_graph returns, it has
\* been executed exactly once and the results hold what it produced.
C18_IsolatedOnReturn ==
    \A n \in Isolated :
        /\ Cardinality(StartsOf(n)) <= 1
        /\ \A i \in StartsOf(n) :
              wf.executed[i].inputs = <<>> /\ wf.executed[i].data = Null
        /\ wf.pc = "returned" =>
              /\ Cardinality(StartsOf(n)) = 1
              /\ n \in DOMAIN wf.results
              /\ \A i \in StartsOf(n) : wf.executed[i].ok
                                         /\ wf.results[n] = wf.executed[i].result

\* C18 witness: a run returned the result of an isolated node of a graph whose
\* other nodes are joined by edges.
C18_Witness ==
    /\ wf.pc = "returned"
    /\ Cardinality(Isolated) = 1
    /\ Len(wf.edges) >= 2
    /\ \A n \in Isolated : n \in DOMAIN wf.results /\ n # wf.nodes[1].id
    /\ Len(wf.executed) >= 2

\* The pairs of nodes that are each the other's only parent.
CyclicPairs ==
    {pair \in GraphNodes \X GraphNodes :
        /\ pair[1] # pair[2]
        /\ ParentsOf(pair[1]) = {pair[2]}
        /\ ParentsOf(pair[2]) = {pair[1]}}

\* Neither node of a cyclic pair has been started, is ready, or has a result.
C19_NeitherRuns ==
    \A pair \in CyclicPairs :
        \A n \in {pair[1], pair[2]} :
            /\ StartsOf(n) = {}
            /\ n \notin DOMAIN wf.results
            /\ \A i \in 1..Len(wf.ready) : wf.ready[i] # n

\* C19: for a graph with a cyclic pair of nodes execute_graph ends, no
\* behaviour of a node of the pair is ever started, and the results never hold
\* an entry for one of them.
C19_CyclicPairSkipped ==
    /\ []C19_NeitherRuns
    /\ [](CyclicPairs # {} => <>Terminated)

\* C19 witness: a run of a graph with a cyclic pair returned the result of the
\* third node.
C19_Witness ==
    /\ wf.pc = "returned"
    /\ CyclicPairs # {}
    /\ Len(wf.executed) = 1
    /\ DOMAIN wf.results = GraphNodes \ {pair[1] : pair \in CyclicPairs}

\* The ids reached from a set of ids over at most k edges.
RECURSIVE Reach(_, _)
Reach(S, k) ==
    IF k = 0 THEN S
    ELSE LET next == {wf.edges[i].target :
                        i \in {j \in 1..Len(wf.edges) : wf.edges[j].source \in S}}
         IN  S \cup Reach(next, k - 1)

\* The ids that have nid as an ancestor.
Below(nid) ==
    Reach({wf.edges[i].target : i \in {j \in 1..Len(wf.edges) : wf.edges[j].source = nid}},
          Len(NodeIds))

\* The nodes on a cycle, and the nodes on or downstream of a cycle.
OnCycle == {n \in GraphNodes : n \in Below(n)}

NeverReady == {n \in GraphNodes : n \in OnCycle \/ \E c \in OnCycle : n \in Below(c)}

\* C20: when execute_graph returns, the keys of the results are exactly the ids
\* of the nodes whose behaviour was executed, each with the value it produced
\* (a null value too); a node on a cycle or downstream of one is never started
\* and never has an entry, and no error is raised for it: a run raises only
\* out of a behaviour it started or for a ready id that is the id of no node.
C20_ResultsAreExecuted ==
    /\ wf.pc = "returned" =>
          /\ DOMAIN wf.results = {wf.executed[i].nid : i \in 1..Len(wf.executed)}
          /\ \A i \in 1..Len(wf.executed) :
                /\ wf.executed[i].ok
                /\ (\A k \in (i + 1)..Len(wf.executed) :
                       wf.executed[k].nid # wf.executed[i].nid)
                     => wf.results[wf.executed[i].nid] = wf.executed[i].result
    /\ \A n \in NeverReady : StartsOf(n) = {} /\ n \notin DOMAIN wf.results
    /\ wf.pc = "raised" =>
          \/ wf.error = "KeyError" /\ GraphNodes # {NodeIds[i] : i \in 1..Len(NodeIds)}
          \/ /\ wf.executed # <<>>
             /\ ~wf.executed[Len(wf.executed)].ok
             /\ wf.executed[Len(wf.executed)].nid \notin NeverReady

\* C20 witness: a run returned a null result for the one node it executed; the
\* other two nodes, one on a cycle and one downstream of it, have no entry.
C20_Witness ==
    /\ wf.pc = "returned"
    /\ Len(wf.nodes) = 3
    /\ Len(wf.executed) = 1
    /\ wf.results[wf.executed[1].nid] = Null
    /\ Cardinality(OnCycle) = 1
    /\ Cardinality(NeverReady) = 2

\* ------------------------------------------------------ failures of a workflow

\* The node of the submitted graph with this id.
NodeOf(nid) == CHOOSE n \in {wf.nodes[i] : i \in 1..Len(wf.nodes)} : n.id = nid

\* nid is an agent node whose configuration holds no agent_id.
NoAgentId(nid) ==
    nid \in GraphNodes /\ NodeOf(nid).type = "agent" /\ NodeOf(nid).config.agent_id = <<>>

\* Wherever the behaviour of an agent node without an agent_id was started, it
\* raised ValueError and ended the run: it is the last behaviour started, the
\* node has no result, and no reasoning-loop run was started or consumed for it.
C21_Raised ==
    \A i \in 1..Len(wf.executed) :
        NoAgentId(wf.executed[i].nid) =>
            /\ i = Len(wf.executed)
            /\ ~wf.executed[i].ok
            /\ wf.pc = "raised"
            /\ wf.error = "ValueError"
            /\ wf.executed[i].nid \notin DOMAIN wf.results
            /\ \A k \in 1..Len(wf.invoked) : wf.invoked[k].nid # wf.executed[i].nid
            /\ \A r \in DOMAIN runs : runs[r].pc = "start"

\* The turn of the loop that takes an agent node without an agent_id from the
\* ready list ends execute_graph with ValueError; it starts no run and records
\* no result.
C21_Turn ==
    (wf.pc = "running" /\ wf.ready # <<>> /\ NoAgentId(Head(wf.ready))) =>
        /\ wf'.pc = "raised"
        /\ wf'.error = "ValueError"
        /\ wf'.results = wf.results
        /\ UNCHANGED <<runs, db>>

\* C21: executing an agent node whose configuration has no agent_id makes
\* execute_graph raise (ValueError): the reasoning loop is not invoked, the
\* node's input is not passed through as its result, and no results are
\* returned.
C21_NoAgentIdRaises == []C21_Raised /\ [][C21_Turn]_vars /\ [](wf.pc = "raised" => [](wf.pc = "raised"))

\* C21 witness: an agent node without an agent_id that had an input (the result
\* of its parent) was started and the run ended with ValueError.
C21_Witness ==
    /\ wf.pc = "raised"
    /\ wf.error = "ValueError"
    /\ wf.executed # <<>>
    /\ NoAgentId(wf.executed[Len(wf.executed)].nid)
    /\ wf.executed[Len(wf.executed)].data # Null
    /\ wf.results # <<>>

\* Wherever a started behaviour raised, it is the last one started and the run
\* has ended with the error; a run that returned results started no behaviour
\* that raised.
C22_Aborted ==
    /\ \A i \in 1..Len(wf.executed) :
          ~wf.executed[i].ok =>
              /\ i = Len(wf.executed)
              /\ wf.pc = "raised"
              /\ wf.error # ""
              /\ wf.executed[i].nid \notin DOMAIN wf.results
                 \/ \E k \in 1..(i - 1) : wf.executed[k].nid = wf.executed[i].nid
    /\ wf.pc = "returned" => \A i \in 1..Len(wf.executed) : wf.executed[i].ok

\* C22: if the behaviour of any node raises while it executes, the failure
\* propagates out of execute_graph: the run ends there, no results mapping is
\* returned, and no node still waiting in the ready list or becoming ready
\* later is executed.
C22_FailureAborts == []C22_Aborted /\ [][wf.pc = "raised" => wf' = wf]_vars

\* C22 witness: a behaviour raised after another node had completed and while
\* a node was still waiting in the ready list; that node was never started.
C22_Witness ==
    /\ wf.pc = "raised"
    /\ wf.executed # <<>>
    /\ ~wf.executed[Len(wf.executed)].ok
    /\ wf.results # <<>>
    /\ wf.ready # <<>>
    /\ Head(wf.ready) \in GraphNodes
    /\ StartsOf(Head(wf.ready)) = {}

\* The edges that name, as source or target, an id that is the id of no node.
DanglingEdges ==
    {k \in 1..Len(wf.edges) :
        wf.edges[k].source \notin GraphNodes \/ wf.edges[k].target \notin GraphNodes}

\* C23 as stated: a graph with an edge whose source or target id is the id of
\* no node is a caller error; execute_graph fails for it and never returns
\* normally after ignoring the edge or leaving out the nodes attached to it.
C23_DanglingEdgeFails == DanglingEdges # {} => wf.pc # "returned"

\* ------------------------------------------------------ agent and schedule nodes

\* C24 as stated: an agent node with a valid agent_id returns exactly the
\* final_output text that the reasoning loop put into its 'final' event, for
\* every final answer, of one line or of several; no thought, action or
\* observation text and no other part of the payload is in the node's result.
C24_AgentReturnsFinalText ==
    \A k \in 1..Len(wf.invoked) :
        LET run == wf.invoked[k].run
        IN  (\E i \in 1..Len(run.events) : run.events[i].event = "final")
                => wf.results[wf.invoked[k].nid] = Text(run.final_answer)

\* The schedule sources whose behaviour was started.
ScheduleStarts ==
    {i \in 1..Len(wf.executed) :
        /\ wf.executed[i].nid \in GraphNodes
        /\ NodeOf(wf.executed[i].nid).type = "source"
        /\ NodeOf(wf.executed[i].nid).key = "schedule"}

\* C25 as stated: a source node with key 'schedule' produces its own
\* configuration, unchanged: the value recorded for it in the results equals the
\* node's configuration mapping, whatever its input is.
C25_ScheduleReturnsConfig ==
    \A i \in ScheduleStarts :
        /\ wf.executed[i].ok
        /\ wf.executed[i].result = Mapping(<<NodeOf(wf.executed[i].nid).config.text>>)
        /\ wf.results[wf.executed[i].nid] = Mapping(<<NodeOf(wf.executed[i].nid).config.text>>)

\* ------------------------------------------------------ the order of execution

RECURSIVE EnqueueLog(_)
\* The ids in the order in which they entered the ready list up to the end of
\* the n-th behaviour started: the nodes without an edge into them, in listing
\* order; then, at each completion, the targets of the completed node's edges,
\* in edge order, whose parents have all completed by then.
EnqueueLog(n) ==
    IF n = 0
    THEN LET first == SelectSeq(wf.nodes, LAMBDA m : EdgesInto(m.id) = {})
         IN  [i \in 1..Len(first) |-> first[i].id]
    ELSE LET e == wf.executed[n]
             done == {wf.executed[j].nid : j \in 1..n}
             out == SelectSeq(wf.edges, LAMBDA x : /\ x.source = e.nid
                                                   /\ ParentsOf(x.target) \subseteq done)
         IN  EnqueueLog(n - 1) \o (IF e.ok THEN [i \in 1..Len(out) |-> out[i].target]
                                   ELSE <<>>)

\* The ids of the behaviours started, in the order they were started.
StartedIds == [i \in 1..Len(wf.executed) |-> wf.executed[i].nid]

\* C27: execute_graph executes nodes in the order in which they entered the
\* ready list (first in, first out): the nodes without parents first, in the
\* order they are listed, each other node appended at the tail when its last
\* parent completes.  At every point of a run the ids started so far, followed
\* by the ids still waiting, are the ids in the order they entered the list
\* (an id of no node that was taken from the list raised and started nothing).
C27_FirstInFirstOut ==
    wf.pc \in {"running", "returned", "raised"} =>
        LET log == EnqueueLog(Len(wf.executed))
            taken == Len(wf.executed) + 1
        IN  IF wf.pc = "raised" /\ wf.error = "KeyError"
            THEN /\ Len(log) >= taken
                 /\ log[taken] \notin GraphNodes
                 /\ log = StartedIds \o <<log[taken]>> \o wf.ready
            ELSE log = StartedIds \o wf.ready

\* C27 witness: a run returned after starting three behaviours; the third is a
\* child of the first and was appended behind the second, a node without
\* parents that was waiting.
C27_Witness ==
    /\ wf.pc = "returned"
    /\ Len(wf.executed) = 3
    /\ wf.executed[1].nid \in ParentsOf(wf.executed[3].nid)
    /\ ParentsOf(wf.executed[2].nid) = {}
    /\ wf.executed[2].nid # wf.executed[1].nid

\* ------------------------------------------------------ the end of the loop

\* A response with text, no structured call and no inline call recognised.
PlainAnswer(message) ==
    /\ message.content # <<>>
    /\ message.tool_calls = <<>>
    /\ ~_parse_inline_tool_call(message.content).ok

\* A response with neither text nor a tool call.
EmptyResponse(message) == message.content = <<>> /\ message.tool_calls = <<>>

\* The frames emitted since the response of the current step arrived, its
\* thought frame left out.
SinceResponse(s) == SubSeq(s.events, s.turn.events + 1, Len(s.events))

\* C28: a response with non-empty text, no structured tool call and no inline
\* call recognised in the text ends the loop at that step: it is the last
\* response of the run, no model query and no tool invocation follows it, the
\* final answer is exactly its text, and, unless persisting raised, the TaskLog
\* row and the payload of the one 'final' frame hold exactly that text.
C28_TextEndsLoop ==
    \A r \in DOMAIN runs :
        LET s == runs[r]
            n == Len(s.responses)
            finals == Frames(s.events, "final")
        IN  /\ \A i \in 1..(n - 1) : ~PlainAnswer(s.responses[i])
            /\ (n >= 1 /\ PlainAnswer(s.responses[n])) =>
                  LET text == s.responses[n].content
                  IN  /\ s.queries = n
                      /\ Len(s.invocations) = s.turn.invocations
                      /\ Count(SinceResponse(s), "action") = 0
                      /\ IF s.exit = "none"
                         THEN /\ s.pc \in {"y_thought", "closed"}
                              /\ s.events[Len(s.events)].event = "thought"
                         ELSE /\ s.exit = "final"
                              /\ s.final_answer = text
                              /\ IF s.raised THEN finals = <<>>
                                 ELSE /\ Len(finals) = 1
                                      /\ JsonLoadsPayload(finals[1].data).ok
                                      /\ JsonLoadsPayload(finals[1].data).final_output = text
                                      /\ \E i \in s.created :
                                            /\ db[i].final_output = text
                                            /\ db[i].id
                                               = JsonLoadsPayload(finals[1].data).task_log_id

\* C28 witness: a finished run whose second or later response was a text of
\* several lines without a call; the row and the final frame were written.
C28_Witness ==
    \E r \in DOMAIN runs :
        LET s == runs[r]
        IN  /\ Finished(s) /\ ~s.raised
            /\ Len(s.responses) >= 2
            /\ PlainAnswer(s.responses[Len(s.responses)])
            /\ s.final_answer = MultiLineText
            /\ s.invocations # <<>>

\* C29: a response with neither text nor a tool call ends the loop at that
\* step: it is the last response, no model query follows, the final answer is
\* the placeholder text, and, unless persisting raised, there is no 'error'
\* frame, the TaskLog row is persisted with the placeholder, and the stream of
\* the finished run ends with the 'final' frame followed by the 'done' frame.
C29_EmptyEndsLoop ==
    \A r \in DOMAIN runs :
        LET s == runs[r]
            n == Len(s.responses)
            e == Len(s.events)
            finals == Frames(s.events, "final")
        IN  /\ \A i \in 1..(n - 1) : ~EmptyResponse(s.responses[i])
            /\ (n >= 1 /\ EmptyResponse(s.responses[n])) =>
                  /\ s.queries = n
                  /\ Len(s.invocations) = s.turn.invocations
                  /\ s.exit = "empty"
                  /\ s.final_answer = NoFinalText
                  /\ ~s.raised =>
                        /\ Count(s.events, "error") = 0
                        /\ Len(finals) = 1
                        /\ JsonLoadsPayload(finals[1].data).final_output = NoFinalText
                        /\ \E i \in s.created :
                              /\ db[i].final_output = NoFinalText
                              /\ db[i].thought_process = Join(s.thought_log, <<NL>>)
                              /\ db[i].id = JsonLoadsPayload(finals[1].data).task_log_id
                        /\ Finished(s) =>
                              /\ s.events[e - 1].event = "final"
                              /\ s.events[e] = [event |-> "done", data |-> <<"[DONE]">>]

\* C29 witness: a finished run whose third or later response was empty, after
\* tool calls; its record was persisted.
C29_Witness ==
    \E r \in DOMAIN runs :
        LET s == runs[r]
        IN  /\ Finished(s) /\ ~s.raised
            /\ Len(s.responses) >= 3
            /\ EmptyResponse(s.responses[Len(s.responses)])
            /\ s.invocations # <<>>
            /\ s.created # {}

\* The tokens that are a JSON object naming a tool, under each of the keys.
ToolObjects == {InlineCall, InlineCallToolName, InlineCallName}

\* A response without a structured call whose text embeds a JSON object naming
\* a tool.
EmbedsToolObject(message) ==
    /\ message.tool_calls = <<>>
    /\ \E i \in 1..Len(message.content) : message.content[i] \in ToolObjects

\* The suspension points inside the turn of an inline call.
InInlineTurn == {"y_thought", "y_inline_action", "y_inline_observation", "closed"}

\* C30 as stated: a response with no structured call whose text embeds a JSON
\* object naming a tool (key tool, tool_name or name) is treated like a
\* structured call: the tool is invoked exactly once, exactly one action and
\* one observation frame are emitted, exactly one synthetic assistant message
\* is appended, and the loop goes on to the next step instead of ending with
\* the text as its answer; text with no parsable JSON object or whose object
\* names no tool is the final answer.
C30_InlineCallContinues ==
    \A r \in DOMAIN runs :
        LET s == runs[r]
            t == s.turn
        IN  (s.responses # <<>> /\ s.pc \notin InInlineTurn) =>
              /\ EmbedsToolObject(s.message) =>
                    /\ Len(s.invocations) = t.invocations + 1
                    /\ Count(SinceResponse(s), "action") = 1
                    /\ Count(SinceResponse(s), "observation") = 1
                    /\ Len(s.messages) = t.messages + 1
                    /\ s.messages[Len(s.messages)].role = "assistant"
                    /\ s.exit # "final"
              /\ (s.message.content # <<>> /\ s.message.tool_calls = <<>>
                  /\ ~EmbedsToolObject(s.message)) =>
                    /\ s.exit = "final"
                    /\ Len(s.invocations) = t.invocations

\* ------------------------------------------------------ runs side by side

\* What can happen at one resumption of run s: the request that started it, the
\* fault of its setup, the response of the model or the exception of the model
\* call (exc, "" when it responds), and what the database does.
ResumeChoices(s) ==
    [agent_id : AgentIds, image_path : ImagePaths, fault : {"none", "get", "setup"},
     shape : ShapesAt(s), exc : {"", "ConnectionError", "IndexError"},
     persist : PersistOutcomes]

\* One resumption of run s over the database d under choice c: the run and the
\* database afterwards, by suspension point, as the actions of the loop do it.
Resume(s, d, c) ==
    CASE s.pc = "start" -> Pair(Begin(s, c.agent_id, c.image_path, c.fault), d)
      [] s.pc = "y_notfound" -> Pair(Yield(s, "done", <<"[DONE]">>, "y_notfound_done"), d)
      [] s.pc = "y_notfound_done" -> Pair(Finally(s), d)
      [] s.pc = "y_step" -> Pair([s EXCEPT !.pc = "await_model", !.queries = @ + 1], d)
      [] s.pc = "await_model" -> IF c.exc # "" THEN Pair(Raise(s, c.exc), d)
                                 ELSE Respond(s, d, c.shape, c.persist)
      [] s.pc = "y_thought" -> AfterContent(s, d, c.persist)
      [] s.pc = "y_action" -> Pair(RunTool(s, "y_observation"), d)
      [] s.pc = "y_observation" ->
            LET s1 == FeedBack(s)
            IN  IF s1.tc < Len(s1.message.tool_calls) THEN Pair(YieldAction(s1, s1.tc + 1), d)
                ELSE Continue(s1, d, c.persist)
      [] s.pc = "y_inline_action" -> Pair(RunTool(s, "y_inline_observation"), d)
      [] s.pc = "y_inline_observation" -> Continue(FeedBackInline(s), d, c.persist)
      [] s.pc \in {"y_final", "y_error"} -> Pair(Finally(s), d)
      [] s.pc = "y_done" -> Pair([s EXCEPT !.pc = "finished"], d)
      [] OTHER -> Pair(s, d)

\* The TaskLog rows that run r created: the database as it is when r runs alone.
OwnRows(r) == SelectSeq(db, LAMBDA row : row.id \in runs[r].created)

\* A TaskLog row without the id the database gave it.
RowContent(row) == [row EXCEPT !.id = 0]

\* The rows of d from position n + 1 on, without their ids.
AddedContent(d, n) == [i \in 1..(Len(d) - n) |-> RowContent(d[n + i])]

\* A frame without the id the database gave the record: the task_log_id of a
\* 'final' payload is blanked.
MaskFrame(e) == IF e.event = "final" THEN [e EXCEPT !.data[2] = "#"] ELSE e

\* A run without the ids the database gave its record.
Masked(s) ==
    [s EXCEPT !.events = [i \in 1..Len(s.events) |-> MaskFrame(s.events[i])],
              !.log = [i \in 1..Len(s.log) |-> RowContent(s.log[i])],
              !.created = {Cardinality(s.created)}]

\* A step of run r does to r exactly what the same resumption does when r runs
\* alone, on a database that holds only r's rows.
SameAsAlone(r) ==
    \E c \in ResumeChoices(runs[r]) :
        LET alone == Resume(runs[r], OwnRows(r), c)
        IN  /\ alone.s = runs'[r]
            /\ SubSeq(alone.db, Len(OwnRows(r)) + 1, Len(alone.db))
               = SubSeq(db', Len(db) + 1, Len(db'))

\* The same, the ids given by the database left aside.
SameAsAloneButIds(r) ==
    \E c \in ResumeChoices(runs[r]) :
        LET alone == Resume(runs[r], OwnRows(r), c)
        IN  /\ Masked(alone.s) = Masked(runs'[r])
            /\ AddedContent(alone.db, Len(OwnRows(r))) = AddedContent(db', Len(db))

\* A step of one run leaves the state of every other run and the rows written
\* before it as they are.
OthersUntouched(r) ==
    /\ \A q \in DOMAIN runs \ {r} : runs'[q] = runs[q]
    /\ Len(db') >= Len(db)
    /\ SubSeq(db', 1, Len(db)) = db

EdgeSeqInto(nid) ==
    SelectSeq([k \in 1..Len(wf.edges) |-> k], LAMBDA k : wf.edges[k].target = nid)

\* The result that node p had recorded when the i-th behaviour was started: the
\* result of its last start before i.
ResultBefore(p, i) ==
    LET last == CHOOSE j \in {k \in StartsOf(p) : k < i} :
                    \A k \in StartsOf(p) : k < i => k <= j
    IN  wf.executed[last].result

\* C31: the list of parent outputs merged for a node holds exactly one entry
\* per edge into the node, in the order of those edges in the edge list,
\* whatever the order in which the parents completed; each entry is the output
\* of the source of its edge, and for all-text parents the merged text is
\* their outputs joined in edge order.
C31_InputsInEdgeOrder ==
    \A i \in 1..Len(wf.executed) :
        LET e == wf.executed[i]
            into == EdgeSeqInto(e.nid)
        IN  /\ Len(e.inputs) = Len(into)
            /\ \A k \in 1..Len(into) :
                  /\ {j \in StartsOf(wf.edges[into[k]].source) : j < i} # {}
                  /\ e.inputs[k] = ResultBefore(wf.edges[into[k]].source, i)
            /\ (Len(into) >= 2 /\ \A k \in 1..Len(into) : e.inputs[k].t = "text")
                  => e.data = Text(Join([k \in 1..Len(into) |-> e.inputs[k].v], <<NL, NL>>))

\* C31 witness: a node with two text parents was started; the edge from the
\* parent that completed second comes first in the edge list, and the two
\* outputs differ.
C31_Witness ==
    \E i \in 1..Len(wf.executed) :
        LET e == wf.executed[i]
            into == EdgeSeqInto(e.nid)
        IN  /\ Len(into) = 2
            /\ e.inputs[1].t = "text" /\ e.inputs[2].t = "text"
            /\ e.inputs[1] # e.inputs[2]
            /\ \E a \in StartsOf(wf.edges[into[1]].source),
                  b \in StartsOf(wf.edges[into[2]].source) : b < a /\ a < i

\* ------------------------------------------------------ the web extraction tool

\* C32 as stated: when the reasoning loop invokes the web extraction tool with
\* a URL and the page fetch itself succeeds, the observation is 'Scraped
\* content from <url>:' followed by the first 3000 characters at most of the
\* extracted text, with a null artifact, and is not an ERROR observation.
C32_ScrapedObservation ==
    \A r \in DOMAIN runs :
        \A i \in 1..Len(runs[r].invocations) :
            LET inv == runs[r].invocations[i]
            IN  (_TOOL_ALIASES(inv.name) = "web_scraper_tool" /\ inv.arguments = ArgsUrl
                 /\ EnvAt(i).ok)
                    => /\ inv.observation
                          = <<"Scraped content from ", "http://u", ":", NL>>
                            \o SubSeq(EnvAt(i).text, 1,
                                      IF Len(EnvAt(i).text) < 3000 THEN Len(EnvAt(i).text)
                                      ELSE 3000)
                       /\ inv.artifact = <<>>

\* ------------------------------------------------ nodes without a behaviour

\* nid is an output node, a node of a type the executor does not know, or a
\* source or tool node whose key its type has no behaviour for.
NoBehaviour(nid) ==
    /\ nid \in GraphNodes
    /\ LET n == NodeOf(nid)
       IN  \/ n.type = "output"
           \/ n.type \notin {"source", "tool", "agent", "output"}
           \/ n.type = "source" /\ n.key \notin {"url_input", "schedule"}
           \/ n.type = "tool" /\ n.key \notin {"web_scraper", "email_sender", "pdf_report"}

\* C33: a node of type output (whatever its key) and a node whose (type, key)
\* matches no behaviour returns its merged input unchanged and invokes nothing:
\* wherever its behaviour was started it succeeded, its output is the merged
\* input, no capability (page fetch, mail dispatch, report) was called and no
\* reasoning-loop run was started or consumed for it.
C33_PassThrough ==
    \A i \in 1..Len(wf.executed) :
        LET e == wf.executed[i]
        IN  NoBehaviour(e.nid) =>
                /\ e.ok
                /\ e.result = e.data
                /\ e.data = _merge_inputs(e.inputs)
                /\ wf.results[e.nid] = e.data
                /\ e.capability = ""
                /\ \A k \in 1..Len(wf.invoked) : wf.invoked[k].nid # e.nid

\* C33 witness: an output node in the middle of the graph, a node of an unknown
\* type, and a tool node with an unknown key have each passed a non-null input
\* through (in some run each), as seen in a run that has ended.
C33_Witness ==
    /\ wf.pc = "returned"
    /\ \E i \in 1..Len(wf.executed) :
          /\ wf.executed[i].nid = "B"
          /\ NoBehaviour("B")
          /\ NodeOf("B").type = "transform"
          /\ wf.executed[i].data # Null
          /\ wf.executed[i].result = wf.executed[i].data
    /\ \E i \in 1..Len(wf.executed) :
          /\ wf.executed[i].nid = "C"
          /\ wf.executed[i].data # Null

\* ------------------------------------------------------ the submitted graph

\* C34: execute_graph never modifies the submitted graph: over every step of a
\* run, whatever it does (indexing the edges, executing a node, consuming an
\* agent's run, recording a result, raising, returning), the node list with
\* every field of every node (the configuration text included: what the
\* executor parses is a value of its own) and the edge list stay what they were.
C34_GraphUnchanged == [][wf'.nodes = wf.nodes /\ wf'.edges = wf.edges]_vars

\* C34 witness: a run has returned after executing three nodes, one of them with
\* a configuration that was parsed and read (a mail node with a recipient), and
\* another fed by it.
C34_Witness ==
    /\ wf.pc = "returned"
    /\ Len(wf.executed) = 3
    /\ wf.edges # <<>>
    /\ NodeOf("B").key = "email_sender"
    /\ NodeOf("B").config.to # <<>>
    /\ \E i \in 1..Len(wf.executed) :
          /\ wf.executed[i].nid = "B"
          /\ wf.executed[i].capability = "send_email"

\* ------------------------------------------------------ the agent is not found

\* The run found no agent row for its agent id.
AgentNotFound(s) ==
    /\ s.events # <<>>
    /\ s.events[1] = [event |-> "error",
                      data |-> <<"Agent #", Str(s.agent_id), " not found.">>]

\* C35 as stated: when the agent id does not exist, the finished stream is the
\* 'error' frame "Agent #<id> not found." followed by 'done' and nothing else;
\* no model query was issued, no tool invoked, no TaskRecord persisted.
C35_NotFoundStream ==
    \A r \in DOMAIN runs :
        LET s == runs[r]
        IN  (Finished(s) /\ AgentNotFound(s)) =>
                /\ s.events = << [event |-> "error",
                                  data |-> <<"Agent #", Str(s.agent_id), " not found.">>],
                                 [event |-> "done", data |-> <<"[DONE]">>] >>
                /\ s.queries = 0
                /\ s.invocations = <<>>
                /\ s.created = {}
                /\ db = <<>>

\* ------------------------------------------------------ at most once

\* C36 as stated: in one run of execute_graph the behaviour of each node is
\* started at most once, whatever the submitted graph: also for a node with
\* several parents and for an edge list that holds the same source and target
\* more than once.
C36_AtMostOnce == \A nid \in GraphNodes : Cardinality(StartsOf(nid)) <= 1

\* ------------------------------------------------------ termination

\* C37: for every graph whose edges all reference existing nodes (acyclic,
\* cyclic, with self-loops, with a cycle reachable from a source), each node's
\* behaviour terminating, execute_graph terminates: the run reaches the point
\* where the ready list is empty and the results are returned, or where an
\* error is raised.
C37_Terminates == (DanglingEdges = {}) ~> Terminated

\* C37 witness: a run has returned for a graph with three edges, all between
\* existing nodes, in which a source that was executed feeds a node of a cycle
\* of two nodes.
C37_Witness ==
    /\ wf.pc = "returned"
    /\ DanglingEdges = {}
    /\ Len(wf.edges) = 3
    /\ \E a, b, c \in GraphNodes :
          /\ a # b /\ b # c /\ a # c
          /\ StartsOf(a) # {}
          /\ \E i, j, k \in 1..Len(wf.edges) :
                /\ wf.edges[i] = [source |-> a, target |-> b]
                /\ wf.edges[j] = [source |-> b, target |-> c]
                /\ wf.edges[k] = [source |-> c, target |-> b]

\* ------------------------------------------ structured calls beside inline text

\* The response holds structured tool calls and text in which an inline call is
\* recognised.
BothKinds(message) ==
    /\ message.tool_calls # <<>>
    /\ message.content # <<>>
    /\ _parse_inline_tool_call(message.content).ok

\* C38: when a response carries structured tool calls and text that holds an
\* inline JSON tool call, only the structured calls are executed in that step:
\* the text is emitted as the thought frame and nowhere else, the tools invoked
\* since the response are the structured calls in their order (all of them once
\* the next query is issued), no "Intercepted inline tool call" action is
\* emitted, and the loop does not end with that text as its final answer.
C38_StructuredOnly ==
    \A r \in DOMAIN runs :
        LET s == runs[r]
            t == s.turn
            calls == s.message.tool_calls
            k == Len(s.invocations) - t.invocations
            since == SinceResponse(s)
        IN  (s.responses # <<>> /\ BothKinds(s.message)) =>
              /\ s.events[t.events] = _sse("thought", s.message.content)
              /\ k \in 0..Len(calls)
              /\ \A j \in 1..k :
                    /\ s.invocations[t.invocations + j].name = calls[j].function.name
                    /\ s.invocations[t.invocations + j].arguments
                          = (IF calls[j].function.arguments = "" THEN "{}"
                             ELSE calls[j].function.arguments)
              /\ s.queries > t.queries => k = Len(calls)
              /\ \A i \in 1..Len(since) :
                    /\ since[i].data # EscapeNewlines(s.message.content)
                    /\ since[i].event = "action" =>
                          since[i].data[1] # "[ACTION] Intercepted inline tool call: "
                    /\ since[i].event = "final" => s.final_answer # s.message.content
              /\ s.exit # "final"
              /\ s.final_answer # s.message.content

\* C38 witness: a response with two structured calls and an inline call in its
\* text was answered by executing the two structured calls, and the loop went
\* on to its next query.
C38_Witness ==
    \E r \in DOMAIN runs :
        LET s == runs[r]
        IN  /\ s.responses # <<>>
            /\ BothKinds(s.message)
            /\ Len(s.message.tool_calls) = 2
            /\ Len(s.invocations) = s.turn.invocations + 2
            /\ s.queries > s.turn.queries
            /\ s.pc = "await_model"

\* ------------------------------------------------ an agent node whose loop fails

\* The stream of the run holds an 'error' frame and no 'final' frame.
ErrorRun(run) == Count(run.events, "error") >= 1 /\ Count(run.events, "final") = 0

\* The nodes whose only parent is nid.
OnlyChildren(nid) == {c \in GraphNodes : ParentsOf(c) = {nid}}

\* C39: when the reasoning loop consumed by an agent node ended with an 'error'
\* frame and no 'final' frame (no agent of that id, the model call failed,
\* persisting failed), the node did not raise: its behaviour returned the empty
\* string, which is its recorded result; the run went on: each child it alone
\* feeds was appended to the ready list and, where it was started, received
\* the empty string as its input, and it was started in every run that returned.
C39_ErrorGivesEmpty ==
    \A k \in 1..Len(wf.invoked) :
        LET nid == wf.invoked[k].nid
        IN  ErrorRun(wf.invoked[k].run) =>
              /\ StartsOf(nid) # {}
              /\ \A i \in StartsOf(nid) :
                    /\ wf.executed[i].ok
                    /\ wf.executed[i].result = Text(<<>>)
              /\ nid \in wf.completed
              /\ wf.results[nid] = Text(<<>>)
              /\ wf.error = NoWorkflow.error
              /\ \A c \in OnlyChildren(nid) :
                    /\ StartsOf(c) # {} \/ \E i \in 1..Len(wf.ready) : wf.ready[i] = c
                    /\ wf.pc = "returned" => StartsOf(c) # {}
                    /\ \A j \in StartsOf(c) :
                          /\ wf.executed[j].inputs = <<Text(<<>>)>>
                          /\ wf.executed[j].data = Text(<<>>)

\* C39 witness: the loop of an agent node ended with an 'error' frame after a
\* model query, the node's result is the empty string, its child was executed
\* with the empty string, and the run returned.
C39_Witness ==
    /\ wf.pc = "returned"
    /\ Len(wf.invoked) = 1
    /\ ErrorRun(wf.invoked[1].run)
    /\ wf.invoked[1].run.queries >= 1
    /\ wf.results[wf.invoked[1].nid] = Text(<<>>)
    /\ \E c \in OnlyChildren(wf.invoked[1].nid) :
          \E j \in StartsOf(c) : wf.executed[j].data = Text(<<>>)

\* ------------------------------------------------------ the executor's session

\* C40 as stated: the database session the executor opened at construction is
\* closed when execute_graph has ended, on every exit path: when it returned
\* the results and when a node's behaviour raised and ended the run.
C40_SessionClosedAtEnd == Terminated => wf.session = "closed"

====
